---- MODULE Spec2Model ----
(***************************************************************************)
(* A model of thanhdaon/tickets: the transactional outbox and its          *)
(* forwarder, the message router's middleware chain (retry, ack / nack)    *)
(* and the ops-bookings read model projector.                              *)
(*                                                                         *)
(* The module holds several specifications over disjoint groups of         *)
(* variables; a specification leaves the variables of the other groups     *)
(* at their initial value.                                                 *)
(*   OutboxSpec, OutboxLive : business transaction -> outbox -> forwarder  *)
(*   Spec                   : router delivery -> middlewares -> projector  *)
(*   IngressSpec            : topic events -> splitter and data-lake sink  *)
(*   PipeSpec, PipeLive     : a BookingMade event from commit to read model*)
(*   ServiceSpec            : Service.Run, its goroutines and the shutdown *)
(*   FanSpec, FanLive       : the handlers of TicketBookingConfirmed       *)
(*   ProjectorSpec          : Spec on a write model with committed bookings*)
(*   DefectSpec, DefectLive : a handler build that fails on every message  *)
(*   ChainSpec              : one message through the middleware chain     *)
(*   ReorderSpec, ReorderLive : the events of one ticket in any order      *)
(***************************************************************************)
EXTENDS Integers, Sequences, FiniteSets, TLC

(***************************************************************************)
(* Bounds of the model.                                                    *)
(***************************************************************************)
\* number of business transactions (each writes one booking and one event)
NumTx == 2
\* forwarder crashes and publish failures in one behaviour
MaxFaults == 2
\* records fetched by one forwarder query
BatchSize == 2

\* crashes, publish failures and outages in one behaviour of a specification
\* that is checked for liveness
PipeFaults == 1

TxIds == 1..NumTx

(***************************************************************************)
(* Outbox group.                                                           *)
(*   tx        : per business transaction, its status and staged writes    *)
(*   bookings  : the committed rows of the business table                  *)
(*   outbox    : the committed rows of the outbox table, in commit order   *)
(*   fwdPc     : where the forwarder loop is                               *)
(*   fwdBatch  : the outbox positions the forwarder fetched                *)
(*   fwdPos    : how many records of fwdBatch it has published             *)
(*   events    : the messages published to the broker, in order            *)
(*   faults    : crashes and publish failures so far                       *)
(***************************************************************************)
VARIABLES tx, bookings, outbox, fwdPc, fwdBatch, fwdPos, events, faults

(***************************************************************************)
(* Router group.                                                           *)
(*   readModel : table read_model_ops_bookings, booking_id -> row          *)
(*   msg       : per event, its delivery to the read model handler         *)
(***************************************************************************)
VARIABLES readModel, msg

(***************************************************************************)
(* Ingress group: the topic events and its two consumers.                  *)
(*   topic    : the messages on the topic events, in order                 *)
(*   grp      : per consumer group, its position on the topic and the      *)
(*              delivery in progress                                       *)
(*   perType  : per event name, the messages on the topic events.<name>    *)
(*   lake     : the rows of the data lake table                            *)
(*   pubUp    : whether a publish to the broker succeeds at this moment    *)
(*   panicked : the deliveries (handler, position) whose handler panicked  *)
(*   up       : the router process is running                              *)
(***************************************************************************)
VARIABLES topic, grp, perType, lake, pubUp, panicked, up

ingressVars == <<topic, grp, perType, lake, pubUp, panicked, up>>

(***************************************************************************)
(* Service group: Service.Run and the deployed handlers.                   *)
(*   svc    : the goroutines of Service.Run, the message router, the HTTP  *)
(*            server and the work in flight                                *)
(*   defect : the handlers whose deployed build fails on every message     *)
(*   fan    : the topic events.TicketBookingConfirmed_v1 and the handlers  *)
(*            of that event                                                *)
(*   mw     : one message in the middleware chain of a handler: the retry  *)
(*            backoff, the correlation id, what the handler published and  *)
(*            the metrics counters                                         *)
(***************************************************************************)
VARIABLES svc, defect, fan, mw

svcVars == <<svc, defect, fan, mw>>

outboxVars == <<tx, bookings, outbox, fwdPc, fwdBatch, fwdPos, events, faults>>
routerVars == <<readModel, msg>>
vars == <<tx, bookings, outbox, fwdPc, fwdBatch, fwdPos, events, faults, readModel, msg,
          topic, grp, perType, lake, pubUp, panicked, up, svc, defect, fan, mw>>

OutboxRecord(t) ==
    [id |-> t, payload |-> t, topic |-> "events", forwarded |-> FALSE]

OutboxInit ==
    /\ tx = [t \in TxIds |-> [status |-> "idle", booking |-> FALSE, event |-> FALSE]]
    /\ bookings = {}
    /\ outbox = <<>>
    /\ fwdPc = "down"
    /\ fwdBatch = <<>>
    /\ fwdPos = 0
    /\ events = <<>>
    /\ faults = 0

fwdUnchanged ==
    UNCHANGED <<fwdPc, fwdBatch, fwdPos, events, faults, readModel, msg, ingressVars, svcVars>>

\* Service -> DB (transaction): the transaction is opened
TxBegin(t) ==
    /\ tx[t].status = "idle"
    /\ tx' = [tx EXCEPT ![t].status = "open"]
    /\ UNCHANGED <<bookings, outbox>>
    /\ fwdUnchanged

\* - Store business data (staged in the transaction, not yet visible)
TxStoreBooking(t) ==
    /\ tx[t].status = "open"
    /\ ~tx[t].booking
    /\ tx' = [tx EXCEPT ![t].booking = TRUE]
    /\ UNCHANGED <<bookings, outbox>>
    /\ fwdUnchanged

\* a publish made outside the transaction: the dual write the outbox avoids
TxStoreEventDirect(t) ==
    /\ tx[t].status = "open"
    /\ tx[t].booking
    /\ ~tx[t].event
    /\ tx' = [tx EXCEPT ![t].event = TRUE]
    /\ outbox' = Append(outbox, OutboxRecord(t))
    /\ UNCHANGED bookings
    /\ fwdUnchanged

\* - Store event in outbox table (staged in the same transaction)
TxStoreEvent(t) ==
    /\ tx[t].status = "open"
    /\ tx[t].booking
    /\ ~tx[t].event
    /\ tx' = [tx EXCEPT ![t].event = TRUE]
    /\ UNCHANGED <<bookings, outbox>>
    /\ fwdUnchanged

\* -> Commit: both staged writes become visible in one step
TxCommit(t) ==
    /\ tx[t].status = "open"
    /\ tx[t].booking
    /\ tx[t].event
    /\ tx' = [tx EXCEPT ![t].status = "committed"]
    /\ bookings' = bookings \cup {t}
    /\ outbox' = Append(outbox, OutboxRecord(t))
    /\ fwdUnchanged

\* the service dies, or a statement fails, before the commit: rollback
TxAbort(t) ==
    /\ tx[t].status = "open"
    /\ tx' = [tx EXCEPT ![t].status = "aborted"]
    /\ UNCHANGED <<bookings, outbox>>
    /\ fwdUnchanged

RECURSIVE Unforwarded(_, _)
\* the positions i >= from of the outbox whose record is not forwarded, in order
Unforwarded(tbl, from) ==
    IF from > Len(tbl) THEN <<>>
    ELSE IF tbl[from].forwarded THEN Unforwarded(tbl, from + 1)
    ELSE <<from>> \o Unforwarded(tbl, from + 1)

Take(s, n) == SubSeq(s, 1, IF Len(s) < n THEN Len(s) ELSE n)

\* a query that returns the newest unforwarded records first
FetchUnforwardedNewestFirst(tbl, batchSize) ==
    LET u == Unforwarded(tbl, 1)
    IN  Take([i \in DOMAIN u |-> u[Len(u) + 1 - i]], batchSize)

\* - Query unforwarded events: the first batchSize of them, in commit order
FetchUnforwarded(tbl, batchSize) == Take(Unforwarded(tbl, 1), batchSize)

Range(s) == {s[i] : i \in DOMAIN s}

\* a mark that flips the flag of the records it is given
MarkForwardedFlip(tbl, ids) ==
    [i \in DOMAIN tbl |->
       IF i \in ids THEN [tbl[i] EXCEPT !.forwarded = ~@] ELSE tbl[i]]

\* MarkForwarded(ids): the flag of the records at these positions is set
MarkForwarded(tbl, ids) ==
    [i \in DOMAIN tbl |->
       IF i \in ids THEN [tbl[i] EXCEPT !.forwarded = TRUE] ELSE tbl[i]]

\* mark-then-publish: the fetched records are marked before they are published
FwdFetchMarkFirst ==
    /\ fwdPc = "idle"
    /\ FetchUnforwarded(outbox, BatchSize) # <<>>
    /\ fwdBatch' = FetchUnforwarded(outbox, BatchSize)
    /\ outbox' = [i \in DOMAIN outbox |->
                    IF i \in Range(fwdBatch')
                    THEN [outbox[i] EXCEPT !.forwarded = TRUE] ELSE outbox[i]]
    /\ fwdPos' = 0
    /\ fwdPc' = "publishing"
    /\ UNCHANGED <<svcVars, ingressVars, readModel, msg, tx, bookings, events, faults>>

\* Forwarder (loop): - Query unforwarded events
FwdFetch ==
    /\ fwdPc = "idle"
    /\ FetchUnforwarded(outbox, BatchSize) # <<>>
    /\ fwdBatch' = FetchUnforwarded(outbox, BatchSize)
    /\ fwdPos' = 0
    /\ fwdPc' = "publishing"
    /\ UNCHANGED <<svcVars, ingressVars, readModel, msg, tx, bookings, outbox, events, faults>>

\* - Publish to Pub/Sub: the next record of the batch goes to the broker
FwdPublish ==
    /\ fwdPc = "publishing"
    /\ fwdPos < Len(fwdBatch)
    /\ events' = Append(events, outbox[fwdBatch[fwdPos + 1]].id)
    /\ fwdPos' = fwdPos + 1
    /\ UNCHANGED <<svcVars, ingressVars, readModel, msg, tx, bookings, outbox, fwdPc, fwdBatch, faults>>

\* the publish returns an error: nothing is marked, the loop queries again
FwdPublishFail ==
    /\ fwdPc = "publishing"
    /\ fwdPos < Len(fwdBatch)
    /\ faults < MaxFaults
    /\ faults' = faults + 1
    /\ fwdPc' = "idle"
    /\ fwdBatch' = <<>>
    /\ fwdPos' = 0
    /\ UNCHANGED <<svcVars, ingressVars, readModel, msg, tx, bookings, outbox, events>>

\* a mark that is not restricted to the published batch
FwdMarkAll ==
    /\ fwdPc = "publishing"
    /\ fwdPos = Len(fwdBatch)
    /\ outbox' = [i \in DOMAIN outbox |-> [outbox[i] EXCEPT !.forwarded = TRUE]]
    /\ fwdPc' = "idle"
    /\ fwdBatch' = <<>>
    /\ fwdPos' = 0
    /\ UNCHANGED <<svcVars, ingressVars, readModel, msg, tx, bookings, events, faults>>

\* a mark of the first record of the batch only
FwdMarkFirstOnly ==
    /\ fwdPc = "publishing"
    /\ fwdPos = Len(fwdBatch)
    /\ outbox' = MarkForwarded(outbox, {fwdBatch[1]})
    /\ fwdPc' = "idle"
    /\ fwdBatch' = <<>>
    /\ fwdPos' = 0
    /\ UNCHANGED <<svcVars, ingressVars, readModel, msg, tx, bookings, events, faults>>

\* - Mark as forwarded -> Commit: after every record of the batch was published
FwdMark ==
    /\ fwdPc = "publishing"
    /\ fwdPos = Len(fwdBatch)
    /\ outbox' = MarkForwarded(outbox, Range(fwdBatch))
    /\ fwdPc' = "idle"
    /\ fwdBatch' = <<>>
    /\ fwdPos' = 0
    /\ UNCHANGED <<svcVars, ingressVars, readModel, msg, tx, bookings, events, faults>>

\* the forwarder dies: everything it held in memory is gone
FwdCrash ==
    /\ fwdPc # "down"
    /\ faults < MaxFaults
    /\ faults' = faults + 1
    /\ fwdPc' = "down"
    /\ fwdBatch' = <<>>
    /\ fwdPos' = 0
    /\ UNCHANGED <<svcVars, ingressVars, readModel, msg, tx, bookings, outbox, events>>

\* the forwarder handler (re)starts with the router; its position is the table
FwdStart ==
    /\ fwdPc = "down"
    /\ fwdPc' = "idle"
    /\ UNCHANGED <<svcVars, ingressVars, readModel, msg, tx, bookings, outbox, fwdBatch, fwdPos, events, faults>>

Forwarder == FwdStart \/ FwdFetch \/ FwdPublish \/ FwdMark

OutboxNext ==
    \/ \E t \in TxIds : TxBegin(t)
    \/ \E t \in TxIds : TxStoreBooking(t)
    \/ \E t \in TxIds : TxStoreEvent(t)
    \/ \E t \in TxIds : TxCommit(t)
    \/ \E t \in TxIds : TxAbort(t)
    \/ FwdStart
    \/ FwdFetch
    \/ FwdPublish
    \/ FwdPublishFail
    \/ FwdMark
    \/ FwdCrash


(***************************************************************************)
(* Router group: the deliveries of events to the read model handlers.      *)
(***************************************************************************)
\* retries of the Retry middleware within one delivery
MaxRetries == 3
\* events in the topics of one behaviour
MaxEvents == 2
\* values time.Now() takes
MaxTime == 2
\* projector instances: messages that are being handled at one time
Instances == 2

BookingIds == {"B1", "B2"}
TicketIds == {"T1", "T2"}
Times == 1..MaxTime

\* the events of the model, as the event bus published them
Event ==
    [BM1  |-> [name |-> "BookingMade_v1", booking_id |-> "B1", ticket_id |-> "",
               published_at |-> 11],
     BM2  |-> [name |-> "BookingMade_v1", booking_id |-> "B2", ticket_id |-> "",
               published_at |-> 12],
     TC11 |-> [name |-> "TicketBookingConfirmed_v1", booking_id |-> "B1",
               ticket_id |-> "T1", published_at |-> 21, amount |-> "50.00",
               currency |-> "EUR", customer_email |-> "a@example.com"],
     TC21 |-> [name |-> "TicketBookingConfirmed_v1", booking_id |-> "B1",
               ticket_id |-> "T2", published_at |-> 22, amount |-> "70.00",
               currency |-> "USD", customer_email |-> "b@example.com"],
     TP1  |-> [name |-> "TicketPrinted_v1", booking_id |-> "", ticket_id |-> "T1",
               published_at |-> 31, file_name |-> "T1-ticket.html"],
     TR1  |-> [name |-> "TicketRefunded_v1", booking_id |-> "", ticket_id |-> "T1",
               published_at |-> 41],
     TRI1 |-> [name |-> "TicketReceiptIssued_v1", booking_id |-> "", ticket_id |-> "T1",
               published_at |-> 51, issued_at |-> 52, receipt_number |-> "R-1"]]

EventIds == DOMAIN Event

NoRow == [exists |-> FALSE]
Row(payload) == [exists |-> TRUE, payload |-> payload]

\* the zero value of entities.OpsTicket
ZeroTicket ==
    [price_amount |-> "", price_currency |-> "", customer_email |-> "",
     confirmed_at |-> 0, printed_at |-> 0, printed_file_name |-> "",
     receipt_issued_at |-> 0, receipt_number |-> "", refunded_at |-> 0]

\* a message that is in no topic
NoMsg ==
    [phase |-> "absent", attempts |-> 0, lasterr |-> "", nacked |-> FALSE,
     serfail |-> FALSE, acks |-> 0, snap |-> NoRow, stale |-> FALSE]

(***************************************************************************)
(* The middleware chain and the router's ack / nack.                       *)
(***************************************************************************)
\* a retry budget that is one too large
RetryOffByOne(attempts, err) ==
    IF ~err THEN "return_nil"
    ELSE IF attempts - 1 <= MaxRetries THEN "retry" ELSE "return_err"

\* middleware.Retry after the handler's attempt number `attempts` returned:
\* success is passed on, an error is retried while retries remain
Retry(attempts, err) ==
    IF ~err THEN "return_nil"
    ELSE IF attempts - 1 < MaxRetries THEN "retry" ELSE "return_err"

\* a router that acknowledges whatever the handler returned
AckAlways(result) == "ack"

\* the router: nil -> Ack, error -> Nack
AckOrNack(result) == IF result = "return_nil" THEN "ack" ELSE "nack"

\* the errors of the handlers: none, no row found, serialization failure
ErrNone == ""
ErrNoRows == "no_rows"
ErrSerialization == "serialization"

\* the delivery of a message after an attempt of its handler returned `err`;
\* the count of attempts ends with the delivery that is acknowledged
AfterAttempt(r, err) ==
    LET a == [r EXCEPT !.lasterr = err, !.serfail = @ \/ (err = ErrSerialization),
                       !.snap = NoRow, !.stale = FALSE]
        res == Retry(r.attempts, err # ErrNone)
    IN  IF res = "retry" THEN [a EXCEPT !.phase = "processing"]
        ELSE IF AckOrNack(res) = "ack"
        THEN [a EXCEPT !.phase = "acked", !.acks = @ + 1, !.attempts = 0]
        ELSE [a EXCEPT !.phase = "queued", !.nacked = TRUE]

\* the handler of the message is running
Running(r) == r.phase \in {"processing", "inTx"}

\* the subscriber hands the message to the handler: a new delivery
Deliver(e) ==
    /\ msg[e].phase = "queued"
    /\ Cardinality({m \in EventIds : Running(msg[m])}) < Instances
    /\ msg' = [msg EXCEPT ![e].phase = "processing", ![e].attempts = 0,
                          ![e].lasterr = ErrNone]
    /\ UNCHANGED readModel
    /\ UNCHANGED <<outboxVars, ingressVars, svcVars>>

(***************************************************************************)
(* The read model: db.OpsBookingReadModel.                                 *)
(***************************************************************************)
\* Tickets: map[string]entities.OpsTicket{}
EmptyTickets == [t \in {} |-> ZeroTicket]

\* SELECT payload ... WHERE booking_id = $1 : the booking ids of the rows found
findByBookingID(table, bookingID) ==
    {b \in BookingIds : b = bookingID /\ table[b].exists}

\* SELECT payload ... WHERE payload::jsonb -> 'tickets' ? $1
findByTicketID(table, ticketID) ==
    {b \in BookingIds : table[b].exists /\ ticketID \in DOMAIN table[b].payload.tickets}

\* an assignment that writes the value under every key of the map
MapSetAll(m, k, v) == [x \in (DOMAIN m) \cup {k} |-> v]

\* m[k] = v of a Go map
MapSet(m, k, v) == [x \in (DOMAIN m) \cup {k} |-> IF x = k THEN v ELSE m[x]]

\* m[k] of a Go map: the zero value when the key is missing
MapGet(m, k) == IF k \in DOMAIN m THEN m[k] ELSE ZeroTicket

\* INSERT ... ON CONFLICT (booking_id) DO UPDATE SET payload = excluded.payload
InsertOrUpdate(table, booking) ==
    [table EXCEPT ![booking.booking_id] = Row(booking)]

\* INSERT ... ON CONFLICT (booking_id) DO NOTHING
InsertOrNothing(table, booking) ==
    IF table[booking.booking_id].exists THEN table
    ELSE [table EXCEPT ![booking.booking_id] = Row(booking)]

\* a creation that overwrites the row it finds
createReadModelOverwrite(table, booking) == InsertOrUpdate(table, booking)

createReadModel(table, booking) == InsertOrNothing(table, booking)

\* a confirmation that writes its fields only to a ticket the read model
\* already holds
ConfirmedUpdateExisting(rm, e) ==
    IF Event[e].ticket_id \in DOMAIN rm.tickets
    THEN [rm EXCEPT !.tickets[Event[e].ticket_id] =
            [@ EXCEPT !.price_amount = Event[e].amount,
                      !.price_currency = Event[e].currency,
                      !.customer_email = Event[e].customer_email,
                      !.confirmed_at = Event[e].published_at]]
    ELSE rm

\* a confirmation that starts from an empty ticket instead of the one the
\* read model holds
ConfirmedUpdateReset(rm, e) ==
    LET updated == [ZeroTicket EXCEPT !.price_amount = Event[e].amount,
                                      !.price_currency = Event[e].currency,
                                      !.customer_email = Event[e].customer_email,
                                      !.confirmed_at = Event[e].published_at]
    IN  [rm EXCEPT !.tickets = MapSet(rm.tickets, Event[e].ticket_id, updated)]

\* the update function of OnTicketBookingConfirmed
ConfirmedUpdate(rm, e) ==
    LET ticket == MapGet(rm.tickets, Event[e].ticket_id)
        updated == [ticket EXCEPT !.price_amount = Event[e].amount,
                                  !.price_currency = Event[e].currency,
                                  !.customer_email = Event[e].customer_email,
                                  !.confirmed_at = Event[e].published_at]
    IN  [rm EXCEPT !.tickets = MapSet(rm.tickets, Event[e].ticket_id, updated)]

\* the update function of OnTicketRefunded
RefundedUpdate(ticket, e) == [ticket EXCEPT !.refunded_at = Event[e].published_at]

\* a print that writes a fresh ticket instead of the one it read
PrintedUpdateFresh(ticket, e) ==
    [ZeroTicket EXCEPT !.printed_at = Event[e].published_at,
                       !.printed_file_name = Event[e].file_name]

\* the update function of OnTicketPrinted
PrintedUpdate(ticket, e) ==
    [ticket EXCEPT !.printed_at = Event[e].published_at,
                   !.printed_file_name = Event[e].file_name]

\* the update function of OnTicketReceiptIssued
ReceiptIssuedUpdate(ticket, e) ==
    [ticket EXCEPT !.receipt_issued_at = Event[e].issued_at,
                   !.receipt_number = Event[e].receipt_number]

\* the ticket update function of the handler of event e
TicketUpdate(ticket, e) ==
    CASE Event[e].name = "TicketRefunded_v1" -> RefundedUpdate(ticket, e)
      [] Event[e].name = "TicketPrinted_v1" -> PrintedUpdate(ticket, e)
      [] Event[e].name = "TicketReceiptIssued_v1" -> ReceiptIssuedUpdate(ticket, e)

\* updateReadModel: the row written, with LastUpdate = time.Now()
updateReadModel(table, rm, now) ==
    InsertOrUpdate(table, [rm EXCEPT !.last_update = now])

ByBooking == {e \in EventIds : Event[e].name = "TicketBookingConfirmed_v1"}
ByTicket ==
    {e \in EventIds : Event[e].name \in
        {"TicketRefunded_v1", "TicketPrinted_v1", "TicketReceiptIssued_v1"}}
Creating == {e \in EventIds : Event[e].name = "BookingMade_v1"}

\* the rows the handler of e looks for
Lookup(table, e) ==
    IF e \in ByBooking THEN findByBookingID(table, Event[e].booking_id)
    ELSE findByTicketID(table, Event[e].ticket_id)

\* the read model the handler of e writes, from the one it read
Updated(rm, e) ==
    IF e \in ByBooking THEN ConfirmedUpdate(rm, e)
    ELSE [rm EXCEPT !.tickets =
            MapSet(rm.tickets, Event[e].ticket_id,
                   TicketUpdate(rm.tickets[Event[e].ticket_id], e))]


\* the isolation level that lets a concurrent update through
LevelReadCommitted == "read committed"

\* sql.LevelRepeatableRead, the level both updates ask updateInTx for
LevelRepeatableRead == "repeatable read"

\* updateInTx, first statement: the transaction begins and the handler's find
\* runs in it. No row: the function returns an error and the transaction is
\* rolled back. A row: the transaction holds it as its snapshot.
TxFind(e, rows) ==
    LET r == [msg[e] EXCEPT !.attempts = @ + 1]
    IN  /\ msg[e].phase = "processing"
        /\ IF rows = {}
           THEN msg' = [msg EXCEPT ![e] = AfterAttempt(r, ErrNoRows)]
           ELSE \E b \in rows :
                  msg' = [msg EXCEPT ![e] = [r EXCEPT !.phase = "inTx",
                                                      !.snap = readModel[b],
                                                      !.stale = FALSE]]
        /\ UNCHANGED readModel
        /\ UNCHANGED <<outboxVars, ingressVars, svcVars>>

\* updateInTx, the write and the commit: under repeatable read the write of a
\* row that another transaction changed since the snapshot fails (serialization
\* failure) and the transaction is rolled back; otherwise the row is written,
\* the transaction commits and the snapshots of the open transactions that
\* hold this row are out of date
TxWrite(e, level, now) ==
    LET rm == Updated(msg[e].snap.payload, e)
    IN  /\ msg[e].phase = "inTx"
        /\ IF msg[e].stale /\ level = LevelRepeatableRead
           THEN /\ msg' = [msg EXCEPT ![e] = AfterAttempt(msg[e], ErrSerialization)]
                /\ UNCHANGED readModel
           ELSE /\ readModel' = updateReadModel(readModel, rm, now)
                /\ msg' = [m \in EventIds |->
                             IF m = e THEN AfterAttempt(msg[e], ErrNone)
                             ELSE IF /\ msg[m].phase = "inTx"
                                     /\ msg[m].snap.payload.booking_id = rm.booking_id
                                  THEN [msg[m] EXCEPT !.stale = TRUE]
                                  ELSE msg[m]]
        /\ UNCHANGED <<outboxVars, ingressVars, svcVars>>

\* a find that takes a missing row for an empty read model and goes on
TxFindOrEmpty(e, rows) ==
    LET r == [msg[e] EXCEPT !.attempts = @ + 1]
        empty == Row([booking_id |-> Event[e].booking_id, tickets |-> EmptyTickets,
                      last_update |-> 0, booked_at |-> 0])
    IN  /\ msg[e].phase = "processing"
        /\ IF rows = {}
           THEN msg' = [msg EXCEPT ![e] = [r EXCEPT !.phase = "inTx", !.snap = empty,
                                                    !.stale = FALSE]]
           ELSE \E b \in rows :
                  msg' = [msg EXCEPT ![e] = [r EXCEPT !.phase = "inTx",
                                                      !.snap = readModel[b],
                                                      !.stale = FALSE]]
        /\ UNCHANGED readModel
        /\ UNCHANGED <<outboxVars, ingressVars, svcVars>>

\* a find that takes a missing row for a message to drop: it returns nil
TxFindOrDiscard(e, rows) ==
    LET r == [msg[e] EXCEPT !.attempts = @ + 1]
    IN  /\ msg[e].phase = "processing"
        /\ IF rows = {}
           THEN msg' = [msg EXCEPT ![e] = AfterAttempt(r, ErrNone)]
           ELSE \E b \in rows :
                  msg' = [msg EXCEPT ![e] = [r EXCEPT !.phase = "inTx",
                                                      !.snap = readModel[b],
                                                      !.stale = FALSE]]
        /\ UNCHANGED readModel
        /\ UNCHANGED <<outboxVars, ingressVars, svcVars>>

\* the read model OnBookingMade builds
NewBooking(e, now) ==
    [booking_id |-> Event[e].booking_id, tickets |-> EmptyTickets,
     last_update |-> now, booked_at |-> Event[e].published_at]

\* a creation that also records the event it handled in the outbox table
OnBookingMadeToOutbox(e) ==
    /\ e \in Creating
    /\ msg[e].phase = "processing"
    /\ \E now \in Times :
         readModel' = createReadModel(readModel, NewBooking(e, now))
    /\ msg' = [msg EXCEPT ![e] =
                 AfterAttempt([msg[e] EXCEPT !.attempts = @ + 1], ErrNone)]
    /\ outbox' = Append(outbox, OutboxRecord(Len(outbox) + 1))
    /\ UNCHANGED <<tx, bookings, fwdPc, fwdBatch, fwdPos, events, faults>>
    /\ UNCHANGED <<ingressVars, svcVars>>

\* OnBookingMade: the first event that should arrive creates the read model
OnBookingMade(e) ==
    /\ e \in Creating
    /\ msg[e].phase = "processing"
    /\ \E now \in Times :
         readModel' = createReadModel(readModel, NewBooking(e, now))
    /\ msg' = [msg EXCEPT ![e] =
                 AfterAttempt([msg[e] EXCEPT !.attempts = @ + 1], ErrNone)]
    /\ UNCHANGED <<outboxVars, ingressVars, svcVars>>

\* an update by booking id that writes a row for a booking it did not find
updateByBookingIDFindOrEmpty(e) ==
    /\ e \in ByBooking
    /\ TxFindOrEmpty(e, findByBookingID(readModel, Event[e].booking_id))

\* updateByBookingID: find the read model of the booking
updateByBookingIDFind(e) ==
    /\ e \in ByBooking
    /\ TxFind(e, findByBookingID(readModel, Event[e].booking_id))

\* an update of a booking in a transaction that is only read committed
updateByBookingIDWriteReadCommitted(e) ==
    /\ e \in ByBooking
    /\ \E now \in Times : TxWrite(e, LevelReadCommitted, now)

\* updateByBookingID: update function, updateReadModel, commit
updateByBookingIDWrite(e) ==
    /\ e \in ByBooking
    /\ \E now \in Times : TxWrite(e, LevelRepeatableRead, now)

\* an update by ticket id that drops the event of a ticket it did not find
updateByTicketIDFindOrDiscard(e) ==
    /\ e \in ByTicket
    /\ TxFindOrDiscard(e, findByTicketID(readModel, Event[e].ticket_id))

\* updateByTicketID: find the read model that holds the ticket
updateByTicketIDFind(e) ==
    /\ e \in ByTicket
    /\ TxFind(e, findByTicketID(readModel, Event[e].ticket_id))

\* an update of a ticket in a transaction that is only read committed
updateByTicketIDWriteReadCommitted(e) ==
    /\ e \in ByTicket
    /\ \E now \in Times : TxWrite(e, LevelReadCommitted, now)

\* updateByTicketID: update function, updateReadModel, commit
updateByTicketIDWrite(e) ==
    /\ e \in ByTicket
    /\ \E now \in Times : TxWrite(e, LevelRepeatableRead, now)

\* the events of one behaviour are published by bookings that were made and
\* tickets that were confirmed: with an event its causes are in the topics too
CausallyClosed(S) ==
    \A e \in S :
        /\ Event[e].name = "TicketBookingConfirmed_v1"
             => \E m \in S : /\ Event[m].name = "BookingMade_v1"
                             /\ Event[m].booking_id = Event[e].booking_id
        /\ Event[e].name \notin {"BookingMade_v1", "TicketBookingConfirmed_v1"}
             => \E c \in S : /\ Event[c].name = "TicketBookingConfirmed_v1"
                             /\ Event[c].ticket_id = Event[e].ticket_id

\* the events, causes before effects
CausalOrder == <<"BM1", "BM2", "TC11", "TC21", "TP1", "TR1", "TRI1">>

\* the table after the handler of e ran alone on it
ApplyOne(table, e, now) ==
    IF e \in Creating
    THEN createReadModel(table, NewBooking(e, now))
    ELSE LET b == CHOOSE b \in Lookup(table, e) : TRUE
         IN  updateReadModel(table, Updated(table[b].payload, e), now)

RECURSIVE ApplyInOrder(_, _, _, _)
ApplyInOrder(table, D, i, now) ==
    IF i > Len(CausalOrder) THEN table
    ELSE ApplyInOrder(IF CausalOrder[i] \in D THEN ApplyOne(table, CausalOrder[i], now)
                      ELSE table,
                      D, i + 1, now)

\* the projector starts on the table that earlier deliveries left: the events
\* of D were delivered once each, causes first, and are gone from the topics
\* unless they are in Q; the events of Q are in the topics: first deliveries,
\* and redeliveries of events of D (at-least-once)
RouterInit ==
    \E D \in SUBSET EventIds, Q \in SUBSET EventIds, now \in Times :
        /\ Q # {}
        /\ Cardinality(Q) <= MaxEvents
        /\ CausallyClosed(D)
        /\ CausallyClosed(D \cup Q)
        /\ readModel = ApplyInOrder([b \in BookingIds |-> NoRow], D, 1, now)
        /\ msg = [e \in EventIds |->
                    [NoMsg EXCEPT !.phase = IF e \in Q THEN "queued" ELSE "absent",
                                  !.acks = IF e \in D THEN 1 ELSE 0]]

RouterNext ==
    \/ \E e \in EventIds : Deliver(e)
    \/ \E e \in EventIds : OnBookingMade(e)
    \/ \E e \in EventIds : updateByBookingIDFind(e)
    \/ \E e \in EventIds : updateByBookingIDWrite(e)
    \/ \E e \in EventIds : updateByTicketIDFind(e)
    \/ \E e \in EventIds : updateByTicketIDWrite(e)

(***************************************************************************)
(* The topic events, the events splitter and the data lake sink.           *)
(***************************************************************************)
\* messages on the topic events in one behaviour
MaxTopic == 2
\* deliveries whose handler panics in one behaviour
MaxPanics == 1

\* the handlers NewRouter adds on the topic events
Handlers == {"events_splitter", "store_to_data_lake"}

\* one consumer group for both subscribers
ConsumerGroupShared(h) == "svc-tickets.events_splitter"

\* the consumer group of the subscriber the service gives each handler
ConsumerGroup(h) ==
    IF h = "events_splitter" THEN "svc-tickets.events_splitter"
    ELSE "svc-tickets.store_to_data_lake"

Groups == {ConsumerGroup(h) : h \in Handlers}
\* the group of a handler
SplitterGroup == ConsumerGroup("events_splitter")
SinkGroup == ConsumerGroup("store_to_data_lake")

\* the messages of the model: metadata name and payload; a payload is JSON
\* with a header, or bytes that are no JSON
IngressMsg ==
    [printed |-> [name |-> "TicketPrinted_v1",
                  payload |-> [json |-> TRUE, header |-> [id |-> "e1", published_at |-> 31]]],
     made    |-> [name |-> "BookingMade_v1",
                  payload |-> [json |-> TRUE, header |-> [id |-> "e2", published_at |-> 11],
                               booking_id |-> "B1"]],
     made2   |-> [name |-> "BookingMade_v1",
                  payload |-> [json |-> TRUE, header |-> [id |-> "e4", published_at |-> 12],
                               booking_id |-> "B2"]],
     broken  |-> [name |-> "TicketPrinted_v1",
                  payload |-> [json |-> FALSE]],
     unnamed |-> [name |-> "",
                  payload |-> [json |-> TRUE, header |-> [id |-> "e3", published_at |-> 41]]]]

MsgIds == DOMAIN IngressMsg
EventNames == {IngressMsg[m].name : m \in MsgIds} \ {""}

\* Marshaler.NameFromMessage: the name in the metadata, "" when there is none
NameFromMessage(m) == IngressMsg[m].name

\* Marshaler.Unmarshal into struct{Header}: an error when the payload is no JSON
Unmarshal(m) ==
    IF IngressMsg[m].payload.json
    THEN [err |-> FALSE, Header |-> IngressMsg[m].payload.header]
    ELSE [err |-> TRUE]

\* the topic the splitter publishes to
TopicOf(eventName) == "events." \o eventName

\* a store that inserts a row whatever the table holds
StoreEventInsert(table, eventID, eventHeader, eventName, payload) ==
    Append(table, [event_id |-> eventID, published_at |-> eventHeader.published_at,
                   event_name |-> eventName, event_payload |-> payload])

\* DataLake.StoreEvent: insert, on conflict of the event id do nothing
StoreEvent(table, eventID, eventHeader, eventName, payload) ==
    IF \E i \in DOMAIN table : table[i].event_id = eventID THEN table
    ELSE Append(table, [event_id |-> eventID, published_at |-> eventHeader.published_at,
                        event_name |-> eventName, event_payload |-> payload])

\* the messages the sink can store: a name and a payload with a header
Storable == {m \in MsgIds : NameFromMessage(m) # "" /\ ~Unmarshal(m).err}

\* the errors of the two handlers, and a panic
ErrNoName == "cannot get event name from message"
ErrUnmarshal == "cannot unmarshal event"
ErrPublish == "publish failed"
Panic == "panic"

\* a chain without middleware.Recoverer: the panic ends the process
NoRecoverer(result) == IF result = Panic THEN "crash" ELSE result

\* middleware.Recoverer: a panic of the wrapped handler is returned as an error
Recoverer(result) == IF result = Panic THEN "return_err" ELSE result

\* a chain with Recoverer inside Retry: the panic reaches Retry as an error
MiddlewaresRecovererInside(attempts, err) == Retry(attempts, err # ErrNone)

\* useMiddlewares: Recoverer is added first and wraps Retry, which wraps the
\* handler; a panic passes through Retry, an error is retried by it
Middlewares(attempts, err) ==
    IF err = Panic THEN Recoverer(Panic)
    ELSE Recoverer(Retry(attempts, err # ErrNone))

\* a consumer group that has taken nothing from the topic yet
NoDelivery ==
    [pos |-> 1, phase |-> "idle", handler |-> "", attempts |-> 0, lasterr |-> ErrNone,
     nacked |-> FALSE]

\* the delivery r after an attempt of its handler ended with err
Handled(r, err) ==
    LET a == [r EXCEPT !.attempts = @ + 1, !.lasterr = err]
        res == Middlewares(a.attempts, err)
    IN  IF res = "retry" THEN a
        ELSE IF res = "crash" THEN [a EXCEPT !.phase = "crashed"]
        ELSE IF AckOrNack(res) = "ack"
        THEN [a EXCEPT !.pos = @ + 1, !.phase = "idle", !.attempts = 0, !.nacked = FALSE]
        ELSE [a EXCEPT !.phase = "idle", !.nacked = TRUE]

\* the group's delivery after the attempt; the process is up unless it crashed
EndAttempt(g, err) ==
    /\ grp' = [grp EXCEPT ![g] = Handled(grp[g], err)]
    /\ up' = (Handled(grp[g], err).phase # "crashed")

\* the message the group's delivery is about
Current(g) == topic[grp[g].pos]

\* the subscriber of the group hands the next message of the topic, or after
\* a nack the same message again, to a handler that subscribed with the group
IngressDeliver(g) ==
    /\ up
    /\ grp[g].phase = "idle"
    /\ grp[g].pos <= Len(topic)
    /\ \E h \in Handlers :
         /\ ConsumerGroup(h) = g
         /\ grp' = [grp EXCEPT ![g] = [@ EXCEPT !.phase = "processing", !.handler = h,
                                                !.attempts = 0, !.lasterr = ErrNone]]
    /\ UNCHANGED <<topic, perType, lake, pubUp, panicked, up>>
    /\ UNCHANGED <<outboxVars, routerVars, svcVars>>

\* a splitter that unmarshals the payload before it routes the message
events_splitter_decoding(g) ==
    LET m == Current(g)
        eventName == NameFromMessage(m)
    IN  /\ up
        /\ grp[g].phase = "processing"
        /\ grp[g].handler = "events_splitter"
        /\ IF eventName = ""
           THEN EndAttempt(g, ErrNoName) /\ UNCHANGED perType
           ELSE IF Unmarshal(m).err
           THEN EndAttempt(g, ErrUnmarshal) /\ UNCHANGED perType
           ELSE IF pubUp
           THEN /\ perType' = [perType EXCEPT ![TopicOf(eventName)] = Append(@, m)]
                /\ EndAttempt(g, ErrNone)
           ELSE EndAttempt(g, ErrPublish) /\ UNCHANGED perType
        /\ UNCHANGED <<topic, lake, pubUp, panicked>>
        /\ UNCHANGED <<outboxVars, routerVars, svcVars>>

\* a splitter that drops the error of the publish
events_splitter_unchecked(g) ==
    LET m == Current(g)
        eventName == NameFromMessage(m)
    IN  /\ up
        /\ grp[g].phase = "processing"
        /\ grp[g].handler = "events_splitter"
        /\ IF eventName = ""
           THEN EndAttempt(g, ErrNoName) /\ UNCHANGED perType
           ELSE IF pubUp
           THEN /\ perType' = [perType EXCEPT ![TopicOf(eventName)] = Append(@, m)]
                /\ EndAttempt(g, ErrNone)
           ELSE EndAttempt(g, ErrNone) /\ UNCHANGED perType
        /\ UNCHANGED <<topic, lake, pubUp, panicked>>
        /\ UNCHANGED <<outboxVars, routerVars, svcVars>>

\* the handler events_splitter: no name in the metadata is an error; the
\* message is published unchanged to events.<name>, the publish's error is
\* the handler's
events_splitter(g) ==
    LET m == Current(g)
        eventName == NameFromMessage(m)
    IN  /\ up
        /\ grp[g].phase = "processing"
        /\ grp[g].handler = "events_splitter"
        /\ IF eventName = ""
           THEN EndAttempt(g, ErrNoName) /\ UNCHANGED perType
           ELSE IF pubUp
           THEN /\ perType' = [perType EXCEPT ![TopicOf(eventName)] = Append(@, m)]
                /\ EndAttempt(g, ErrNone)
           ELSE EndAttempt(g, ErrPublish) /\ UNCHANGED perType
        /\ UNCHANGED <<topic, lake, pubUp, panicked>>
        /\ UNCHANGED <<outboxVars, routerVars, svcVars>>

\* a sink that stores each delivery under an id of its own, not under the
\* id of the event's header
store_to_data_lake_per_delivery(g) ==
    LET m == Current(g)
        eventName == NameFromMessage(m)
        e == Unmarshal(m)
    IN  /\ up
        /\ grp[g].phase = "processing"
        /\ grp[g].handler = "store_to_data_lake"
        /\ IF eventName = ""
           THEN EndAttempt(g, ErrNoName) /\ UNCHANGED lake
           ELSE IF e.err
           THEN EndAttempt(g, ErrUnmarshal) /\ UNCHANGED lake
           ELSE /\ lake' = StoreEvent(lake, <<e.Header.id, grp[g].pos>>, e.Header, eventName,
                                      IngressMsg[m].payload)
                /\ EndAttempt(g, ErrNone)
        /\ UNCHANGED <<topic, perType, pubUp, panicked>>
        /\ UNCHANGED <<outboxVars, routerVars, svcVars>>

\* the handler store_to_data_lake: no name is an error, a payload that does
\* not unmarshal is an error; the event is stored under the id of its header
store_to_data_lake(g) ==
    LET m == Current(g)
        eventName == NameFromMessage(m)
        e == Unmarshal(m)
    IN  /\ up
        /\ grp[g].phase = "processing"
        /\ grp[g].handler = "store_to_data_lake"
        /\ IF eventName = ""
           THEN EndAttempt(g, ErrNoName) /\ UNCHANGED lake
           ELSE IF e.err
           THEN EndAttempt(g, ErrUnmarshal) /\ UNCHANGED lake
           ELSE /\ lake' = StoreEvent(lake, e.Header.id, e.Header, eventName,
                                      IngressMsg[m].payload)
                /\ EndAttempt(g, ErrNone)
        /\ UNCHANGED <<topic, perType, pubUp, panicked>>
        /\ UNCHANGED <<outboxVars, routerVars, svcVars>>

\* the handler of the delivery panics
HandlerPanic(g) ==
    /\ up
    /\ grp[g].phase = "processing"
    /\ Cardinality(panicked \cup {<<grp[g].handler, grp[g].pos>>}) <= MaxPanics
    /\ panicked' = panicked \cup {<<grp[g].handler, grp[g].pos>>}
    /\ EndAttempt(g, Panic)
    /\ UNCHANGED <<topic, perType, lake, pubUp>>
    /\ UNCHANGED <<outboxVars, routerVars, svcVars>>

\* the broker starts or stops taking the publisher's messages
BrokerFlip ==
    /\ up
    /\ pubUp' = ~pubUp
    /\ UNCHANGED <<topic, grp, perType, lake, panicked, up>>
    /\ UNCHANGED <<outboxVars, routerVars, svcVars>>

IngressIdle ==
    /\ topic = <<>>
    /\ grp = [g \in Groups |-> NoDelivery]
    /\ perType = [t \in {TopicOf(n) : n \in EventNames} |-> <<>>]
    /\ lake = <<>>
    /\ pubUp = TRUE
    /\ panicked = {}
    /\ up = TRUE

\* the router starts with messages on the topic events; the same message
\* may be on it twice (the forwarder publishes at least once)
IngressInit ==
    /\ topic \in UNION {[1..n -> MsgIds] : n \in 1..MaxTopic}
    /\ grp = [g \in Groups |-> NoDelivery]
    /\ perType = [t \in {TopicOf(n) : n \in EventNames} |-> <<>>]
    /\ lake = <<>>
    /\ pubUp = TRUE
    /\ panicked = {}
    /\ up = TRUE

IngressNext ==
    \/ \E g \in Groups : IngressDeliver(g)
    \/ \E g \in Groups : events_splitter(g)
    \/ \E g \in Groups : store_to_data_lake(g)
    \/ \E g \in Groups : HandlerPanic(g)
    \/ BrokerFlip

(***************************************************************************)
(* One message in the middleware chain of a consumer handler:              *)
(* Recoverer, Retry, tracing, correlationId, log, metrics, handler.        *)
(***************************************************************************)
\* deliveries of the message by its subscriber in one behaviour
MaxDeliveries == 2

\* middleware.Retry{InitialInterval: 400 ms, MaxInterval: 1 s, Multiplier: 2}
InitialInterval == 400
MaxInterval == 1000
Multiplier == 2

\* a backoff that keeps multiplying beyond the maximum interval
IncrementIntervalUncapped(current) == current * Multiplier

\* the exponential backoff of middleware.Retry after a wait of `current`:
\* the next wait is multiplied, and capped at the maximum interval
IncrementInterval(current) ==
    IF current * Multiplier >= MaxInterval THEN MaxInterval ELSE current * Multiplier

\* shortuuid.New(): the n-th identifier the process generates
ShortUUID(n) == "gen" \o ToString(n)

\* a middleware that takes the correlation id of the metadata as it is
ExtractOnly(metadataID, n) == metadataID

\* correlationIdMiddleware: the correlation_id of the metadata, or a new one
ExtractOrGenerate(metadataID, n) ==
    IF metadataID = "" THEN ShortUUID(n) ELSE metadataID

\* a publisher that is not decorated: the metadata goes out as it came in
PublishUndecorated(m, ctxID) == m

\* log.CorrelationPublisherDecorator.Publish: the correlation id of the
\* message's context is set in its metadata
CorrelationPublisherDecorator(m, ctxID) == [m EXCEPT !.correlation_id = ctxID]

\* a republish in a new message: message.NewMessage(watermill.NewUUID(), payload)
RepublishAsNew(m) == [m EXCEPT !.uuid = "new-" \o m.uuid]

\* publisher.Publish("events."+eventName, msg): the message handed in is the
\* message that goes out
Republish(m) == m

\* the correlation ids a client sends, "" for none
ClientCorrelationIDs == {"", "c1"}

\* the message of IngressMsg[m] as the subscriber delivers it
Delivered(m, c) ==
    [uuid |-> m, name |-> NameFromMessage(m), payload |-> IngressMsg[m].payload,
     correlation_id |-> c]

\* the metrics labels: topic and handler
Labels == {<<"events", h>> : h \in Handlers}

\* no message is with the chain
\*   handler   : the handler the message is for;  orig : the message in the topic
\*   msg       : the message object of this delivery (its metadata can be set)
\*   ctx       : the correlation id in the message's context, "" when none
\*   interval  : the backoff's current interval;  delays : the waits so far
\*   attempts  : handler invocations in this delivery
\*   generated : identifiers generated so far
\*   published : the messages published to the per-type topics
\*   processed, failed : messages_processed_total, messages_processing_failed_total
\*   acks, nacks : what the router answered the subscriber
NoChain ==
    [handler |-> "", orig |-> Delivered("printed", ""), msg |-> Delivered("printed", ""),
     phase |-> "idle", ctx |-> "", interval |-> InitialInterval, delays |-> <<>>,
     attempts |-> 0, lasterr |-> ErrNone, generated |-> 0, deliveries |-> 0,
     published |-> <<>>,
     processed |-> [l \in Labels |-> 0], failed |-> [l \in Labels |-> 0],
     acks |-> 0, nacks |-> 0]

ErrStore == "could not store event"

ChainUnchanged == UNCHANGED <<svc, defect, fan, outboxVars, routerVars, ingressVars>>

\* the subscriber hands the message to the router: the first delivery, or
\* a redelivery after a nack of the message as it is in the topic
ChainDeliver ==
    /\ mw.phase \in {"idle", "nacked"}
    /\ mw.deliveries < MaxDeliveries
    /\ mw' = [mw EXCEPT !.phase = "chain", !.msg = mw.orig, !.ctx = "",
                        !.interval = InitialInterval, !.delays = <<>>,
                        !.attempts = 0, !.lasterr = ErrNone,
                        !.deliveries = @ + 1]
    /\ ChainUnchanged

\* Retry calls the wrapped chain: correlationIdMiddleware sets the
\* correlation id of the context, then the handler is invoked
ChainEnter ==
    /\ mw.phase \in {"chain", "retry"}
    /\ mw' = [mw EXCEPT
               !.phase = "handling",
               !.ctx = ExtractOrGenerate(mw.msg.correlation_id, mw.generated + 1),
               !.generated = IF mw.msg.correlation_id = "" THEN @ + 1 ELSE @]
    /\ ChainUnchanged

\* metrics that count a message once, when its last attempt returned
MetricsIncPerMessage(counters, label, err) ==
    IF err # ErrNone /\ counters.attempts < MaxRetries
    THEN [processed |-> counters.processed, failed |-> counters.failed]
    ELSE [processed |-> [counters.processed EXCEPT ![label] = @ + 1],
          failed |-> IF err # ErrNone THEN [counters.failed EXCEPT ![label] = @ + 1]
                     ELSE counters.failed]

\* metricsMiddleware after next(msg) returned err for the label
MetricsInc(counters, label, err) ==
    [processed |-> [counters.processed EXCEPT ![label] = @ + 1],
     failed |-> IF err # ErrNone THEN [counters.failed EXCEPT ![label] = @ + 1]
                ELSE counters.failed]

\* the chain after the handler's invocation ended with err: the retry with
\* its wait, or the router's ack or nack
ChainResult(c, err) ==
    LET a == [c EXCEPT !.attempts = @ + 1, !.lasterr = err]
        res == Middlewares(a.attempts, err)
    IN  IF res = "retry"
        THEN [a EXCEPT !.phase = "retry", !.delays = Append(@, c.interval),
                       !.interval = IncrementInterval(c.interval)]
        ELSE IF res = "crash" THEN [a EXCEPT !.phase = "crashed"]
        ELSE IF AckOrNack(res) = "ack"
        THEN [a EXCEPT !.phase = "acked", !.acks = @ + 1]
        ELSE [a EXCEPT !.phase = "nacked", !.nacks = @ + 1]

\* the handler returns: events_splitter publishes the message through the
\* decorated publisher (ok: the broker takes it), store_to_data_lake stores
\* the event (ok: the database takes it); the metrics count the attempt
ChainHandle(ok) ==
    LET name == mw.msg.name
        out == CorrelationPublisherDecorator(Republish(mw.msg), mw.ctx)
        publishes == mw.handler = "events_splitter" /\ name # ""
        err == IF name = "" THEN ErrNoName
               ELSE IF mw.handler = "store_to_data_lake" /\ ~mw.msg.payload.json
               THEN ErrUnmarshal
               ELSE IF ok THEN ErrNone
               ELSE IF mw.handler = "events_splitter" THEN ErrPublish ELSE ErrStore
        m == MetricsInc(mw, <<"events", mw.handler>>, err)
    IN  /\ mw.phase = "handling"
        /\ mw' = ChainResult(
                   [mw EXCEPT !.msg = IF publishes THEN out ELSE @,
                              !.published = IF publishes /\ ok
                                            THEN Append(@, [topic |-> TopicOf(name),
                                                            msg |-> out])
                                            ELSE @,
                              !.processed = m.processed,
                              !.failed = m.failed],
                   err)
        /\ ChainUnchanged

\* the handler panics: the panic passes the metrics and the other inner
\* middlewares, which count and log nothing
ChainPanic ==
    /\ mw.phase = "handling"
    /\ mw' = ChainResult(mw, Panic)
    /\ ChainUnchanged

\* a message of the topic events is about to be delivered to a handler
ChainInit ==
    \E h \in Handlers, m \in MsgIds, c \in ClientCorrelationIDs :
        mw = [NoChain EXCEPT !.handler = h, !.orig = Delivered(m, c),
                             !.msg = Delivered(m, c)]

ChainNext ==
    \/ ChainDeliver
    \/ ChainEnter
    \/ \E ok \in BOOLEAN : ChainHandle(ok)
    \/ ChainPanic

(***************************************************************************)
(* Service.Run: the message router, the HTTP server and the shutdown.      *)
(***************************************************************************)
\* messages in the router's handlers, and HTTP requests being served, at once
MaxInFlight == 2

ErrCanceled == "context canceled"
ErrSubscribe == "cannot subscribe topic"

\* the service when Run has started its goroutines: g.Go four times
\*   ctx      : the context of the errgroup
\*   router   : msgsRouter.Run; ready is its channel Running(), closed or not
\*   handling : messages in the handlers of the router
\*   http     : the echo server; requests are the requests it is serving
\*   serve    : the goroutine that waits for Running() and starts the server
\*   stop     : the goroutine that waits for ctx.Done() and shuts the server down
\*   trace    : the goroutine that shuts the trace provider down
\*   err      : the first error a goroutine returned
NewService ==
    [ctx |-> "live", router |-> "starting", ready |-> FALSE, handling |-> 0,
     http |-> "new", requests |-> 0,
     serve |-> "waitRunning", stop |-> "waitDone", trace |-> "waitDone",
     err |-> ErrNone, returned |-> FALSE]

\* errgroup: the first error a goroutine returns is kept and cancels the context
Returns(s, err) ==
    IF err = ErrNone THEN s
    ELSE [s EXCEPT !.err = IF @ = ErrNone THEN err ELSE @, !.ctx = "cancelled"]

\* http.Server.Shutdown(ctx): the listeners are closed; it returns nil when no
\* connection is serving a request, else it waits for them or for ctx.Done()
\* - and the context it is given here is done already
Shutdown(ctxState, requests) ==
    IF requests = 0 THEN ErrNone
    ELSE IF ctxState = "cancelled" THEN ErrCanceled
    ELSE "wait"

SvcUnchanged == UNCHANGED <<defect, fan, mw, outboxVars, routerVars, ingressVars>>

\* msgsRouter.Run: the handlers are subscribed and Running() is closed
RouterStarted ==
    /\ svc.router = "starting"
    /\ svc' = [svc EXCEPT !.router = "running", !.ready = TRUE]
    /\ SvcUnchanged

\* msgsRouter.Run returns an error before it closes Running(): a subscriber
\* of a handler cannot subscribe
RouterFailsToStart ==
    /\ svc.router = "starting"
    /\ svc' = Returns([svc EXCEPT !.router = "failed"], ErrSubscribe)
    /\ SvcUnchanged

\* a handler of the router takes a message
MsgArrives ==
    /\ svc.router = "running"
    /\ svc.handling < MaxInFlight
    /\ svc' = [svc EXCEPT !.handling = @ + 1]
    /\ SvcUnchanged

\* a handler of the router is done with its message
MsgHandled ==
    /\ svc.handling > 0
    /\ svc' = [svc EXCEPT !.handling = @ - 1]
    /\ SvcUnchanged

\* the shutdown signal: the context passed to Service.Run is cancelled
Cancel ==
    /\ svc.ctx = "live"
    /\ ~svc.returned
    /\ svc' = [svc EXCEPT !.ctx = "cancelled"]
    /\ SvcUnchanged

\* msgsRouter.Run on ctx.Done(): the router closes, no new message is taken
RouterCloses ==
    /\ svc.router = "running"
    /\ svc.ctx = "cancelled"
    /\ svc' = [svc EXCEPT !.router = "closing"]
    /\ SvcUnchanged

\* msgsRouter.Run returns nil when its handlers have stopped
RouterReturns ==
    /\ svc.router = "closing"
    /\ svc.handling = 0
    /\ svc' = [svc EXCEPT !.router = "returned"]
    /\ SvcUnchanged

\* a server start that does not wait for the router
HttpStartNoWait ==
    /\ svc.serve = "waitRunning"
    /\ svc' = IF svc.http = "shutdown"
              THEN [svc EXCEPT !.serve = "done"]
              ELSE [svc EXCEPT !.serve = "serving", !.http = "serving"]
    /\ SvcUnchanged

\* <-s.msgsRouter.Running(); s.echoRouter.Start(":8080"): a server that was
\* shut down before returns http.ErrServerClosed at once, which Run ignores
HttpStart ==
    /\ svc.serve = "waitRunning"
    /\ svc.ready
    /\ svc' = IF svc.http = "shutdown"
              THEN [svc EXCEPT !.serve = "done"]
              ELSE [svc EXCEPT !.serve = "serving", !.http = "serving"]
    /\ SvcUnchanged

\* the server accepts a request
HttpRequest ==
    /\ svc.http = "serving"
    /\ svc.requests < MaxInFlight
    /\ svc' = [svc EXCEPT !.requests = @ + 1]
    /\ SvcUnchanged

\* a request is answered
HttpResponse ==
    /\ svc.requests > 0
    /\ ~svc.returned
    /\ svc' = [svc EXCEPT !.requests = @ - 1]
    /\ SvcUnchanged

\* <-ctx.Done(); s.echoRouter.Shutdown(ctx)
HttpShutdown ==
    /\ svc.stop = "waitDone"
    /\ svc.ctx = "cancelled"
    /\ Shutdown(svc.ctx, svc.requests) # "wait"
    /\ svc' = Returns([svc EXCEPT !.stop = "done", !.http = "shutdown"],
                      Shutdown(svc.ctx, svc.requests))
    /\ SvcUnchanged

\* echoRouter.Start returns http.ErrServerClosed once the server is shut down
HttpServeReturns ==
    /\ svc.serve = "serving"
    /\ svc.http = "shutdown"
    /\ svc' = [svc EXCEPT !.serve = "done"]
    /\ SvcUnchanged

\* <-ctx.Done(); s.traceProvider.Shutdown(context.Background())
TraceShutdown ==
    /\ svc.trace = "waitDone"
    /\ svc.ctx = "cancelled"
    /\ svc' = [svc EXCEPT !.trace = "done"]
    /\ SvcUnchanged

\* g.Wait(): every goroutine has returned; Run returns the first error
Wait ==
    /\ ~svc.returned
    /\ svc.router \in {"returned", "failed"}
    /\ svc.serve = "done"
    /\ svc.stop = "done"
    /\ svc.trace = "done"
    /\ svc' = [svc EXCEPT !.returned = TRUE]
    /\ SvcUnchanged

\* no message on events.TicketBookingConfirmed_v1
NoFan == [stream |-> <<>>, dlv |-> <<>>, down |-> {}, done |-> {}]

SvcIdle ==
    /\ svc = NewService
    /\ defect = {}
    /\ mw = NoChain
    /\ fan = NoFan

SvcNext ==
    \/ RouterStarted
    \/ RouterFailsToStart
    \/ MsgArrives
    \/ MsgHandled
    \/ Cancel
    \/ RouterCloses
    \/ RouterReturns
    \/ HttpStart
    \/ HttpRequest
    \/ HttpResponse
    \/ HttpShutdown
    \/ HttpServeReturns
    \/ TraceShutdown
    \/ Wait

(***************************************************************************)
(* The handlers of TicketBookingConfirmed on its topic                     *)
(* events.TicketBookingConfirmed_v1, each behind the middlewares.          *)
(***************************************************************************)
\* the handlers NewRouter adds for the event
ConfirmedHandlers == {"StoreTicket", "AppendToTracker", "PrintTicket", "IssueReceipt"}

\* one consumer group for all the handlers of the service
HandlerGroupShared(h) == "svc-tickets"

\* SubscriberConstructor: the consumer group of a handler
HandlerGroup(h) == "svc-tickets." \o h

HandlerGroups == {HandlerGroup(h) : h \in ConfirmedHandlers}

ErrDependency == "dependency failed"

FanUnchanged == UNCHANGED <<svc, defect, mw, outboxVars, routerVars, ingressVars>>

\* the subscriber of the group hands the next message of the topic, or after
\* a nack the same message again, to a handler that subscribed with the group
FanDeliver(g) ==
    /\ fan.dlv[g].phase = "idle"
    /\ fan.dlv[g].pos <= Len(fan.stream)
    /\ \E h \in ConfirmedHandlers :
         /\ HandlerGroup(h) = g
         /\ fan' = [fan EXCEPT !.dlv[g] = [@ EXCEPT !.phase = "processing", !.handler = h,
                                                     !.attempts = 0, !.lasterr = ErrNone]]
    /\ FanUnchanged

\* an attempt of the handler of the delivery: it stores the ticket, appends
\* the row, uploads the file or issues the receipt, or returns the error of
\* the repository or service it calls
FanHandle(g) ==
    LET r == fan.dlv[g]
        h == r.handler
    IN  /\ r.phase = "processing"
        /\ IF h \in fan.down
           THEN fan' = [fan EXCEPT !.dlv[g] = Handled(r, ErrDependency)]
           ELSE fan' = [fan EXCEPT !.dlv[g] = Handled(r, ErrNone),
                                   !.done = @ \cup {<<h, fan.stream[r.pos]>>}]
        /\ FanUnchanged

\* what a handler calls starts to fail; finitely often
FanOutage(h) ==
    /\ h \notin fan.down
    /\ faults < PipeFaults
    /\ faults' = faults + 1
    /\ fan' = [fan EXCEPT !.down = @ \cup {h}]
    /\ UNCHANGED <<tx, bookings, outbox, fwdPc, fwdBatch, fwdPos, events>>
    /\ UNCHANGED <<svc, defect, mw, routerVars, ingressVars>>

\* what a handler calls works again
FanRecovery(h) ==
    /\ h \in fan.down
    /\ fan' = [fan EXCEPT !.down = @ \ {h}]
    /\ FanUnchanged

\* a confirmed ticket status was accepted: its TicketBookingConfirmed event
\* is on the topic and no handler has taken it
FanInit ==
    /\ svc = NewService
    /\ defect = {}
    /\ mw = NoChain
    /\ fan \in {[stream |-> <<e>>, dlv |-> [g \in HandlerGroups |-> NoDelivery],
                 down |-> {}, done |-> {}] : e \in ByBooking}

FanNext ==
    \/ \E g \in HandlerGroups : FanDeliver(g)
    \/ \E g \in HandlerGroups : FanHandle(g)
    \/ \E h \in ConfirmedHandlers : FanOutage(h)
    \/ \E h \in ConfirmedHandlers : FanRecovery(h)

(***************************************************************************)
(* A handler defect: the deployed build of a handler returns an error for  *)
(* every message, until a corrected build is deployed.                     *)
(***************************************************************************)
ErrDefect == "handler defect"

DefectUnchanged == UNCHANGED <<svc, fan, mw, outboxVars, routerVars>>

\* the handler of the delivery is of a build with the defect: it returns
\* an error before it does anything
DefectiveHandler(g) ==
    /\ up
    /\ grp[g].phase = "processing"
    /\ grp[g].handler \in defect
    /\ EndAttempt(g, ErrDefect)
    /\ UNCHANGED <<topic, perType, lake, pubUp, panicked, defect>>
    /\ DefectUnchanged

\* the corrected build of handler h is deployed: the process restarts, and
\* a message that was with a handler is handed out again by its subscriber
CorrectedDeployment(h) ==
    /\ h \in defect
    /\ defect' = defect \ {h}
    /\ grp' = [g \in Groups |-> [grp[g] EXCEPT !.phase = "idle"]]
    /\ UNCHANGED <<topic, perType, lake, pubUp, panicked, up>>
    /\ DefectUnchanged

\* a handler of a build without the defect
SoundHandler(g) ==
    /\ grp[g].handler \notin defect
    /\ (events_splitter(g) \/ store_to_data_lake(g))

\* messages that have a name and a payload with a header are on the topic;
\* at least one of the handlers is of a build with the defect
DefectInit ==
    /\ topic \in UNION {[1..n -> Storable] : n \in 1..MaxTopic}
    /\ grp = [g \in Groups |-> NoDelivery]
    /\ perType = [t \in {TopicOf(n) : n \in EventNames} |-> <<>>]
    /\ lake = <<>>
    /\ pubUp = TRUE
    /\ panicked = {}
    /\ up = TRUE
    /\ svc = NewService
    /\ fan = NoFan
    /\ mw = NoChain
    /\ defect \in (SUBSET Handlers) \ {{}}

DefectNext ==
    \/ \E g \in Groups : IngressDeliver(g)
    \/ \E g \in Groups : DefectiveHandler(g)
    \/ \E g \in Groups : SoundHandler(g)
    \/ \E h \in Handlers : CorrectedDeployment(h)

(***************************************************************************)
(* The specifications.                                                     *)
(***************************************************************************)
RouterIdle ==
    /\ readModel = [b \in BookingIds |-> NoRow]
    /\ msg = [e \in EventIds |-> NoMsg]

OutboxStart == OutboxInit /\ RouterIdle /\ IngressIdle /\ SvcIdle

\* the outbox and the forwarder
OutboxSpec == OutboxStart /\ [][OutboxNext]_vars

\* the same, with the forwarder loop scheduled whenever it can take a step
OutboxLive == OutboxSpec /\ WF_vars(Forwarder)

Init == OutboxInit /\ RouterInit /\ IngressIdle /\ SvcIdle
Next == RouterNext

\* the router's deliveries to the read model handlers
Spec == Init /\ [][Next]_vars

\* the write model after every booking was committed and its event forwarded
BookingsCommitted ==
    /\ tx = [t \in TxIds |-> [status |-> "committed", booking |-> TRUE, event |-> TRUE]]
    /\ bookings = TxIds
    /\ outbox = [t \in TxIds |-> [OutboxRecord(t) EXCEPT !.forwarded = TRUE]]
    /\ fwdPc = "idle"
    /\ fwdBatch = <<>>
    /\ fwdPos = 0
    /\ events = [t \in TxIds |-> t]
    /\ faults = 0

\* the projector at work on the events of bookings that were committed
ProjectorStart == BookingsCommitted /\ RouterInit /\ IngressIdle /\ SvcIdle

ProjectorSpec == ProjectorStart /\ [][Next]_vars

IngressStart == OutboxInit /\ RouterIdle /\ IngressInit /\ SvcIdle

\* the router's deliveries of the topic events to the splitter and the sink
IngressSpec == IngressStart /\ [][IngressNext]_vars

DefectStart == OutboxInit /\ RouterIdle /\ DefectInit

DefectSpec == DefectStart /\ [][DefectNext]_vars

\* the router keeps delivering and the handlers keep returning
DefectLive ==
    /\ DefectSpec
    /\ \A g \in Groups : WF_vars(IngressDeliver(g))
    /\ \A g \in Groups : WF_vars(DefectiveHandler(g))
    /\ \A g \in Groups : WF_vars(SoundHandler(g))

ChainStart ==
    /\ OutboxInit /\ RouterIdle /\ IngressIdle
    /\ svc = NewService /\ defect = {} /\ fan = NoFan
    /\ ChainInit

ChainSpec == ChainStart /\ [][ChainNext]_vars

\* the events of one ticket of one booking: BookingMade,
\* TicketBookingConfirmed, TicketPrinted, TicketRefunded, TicketReceiptIssued
OneTicket ==
    {e \in Creating \cup ByBooking : Event[e].booking_id = "B1" /\ Event[e].ticket_id \in {"", "T1"}}
      \cup {e \in ByTicket : Event[e].ticket_id = "T1"}

\* events of the ticket are in their topics, in no order: first deliveries,
\* among them effects whose cause is in its topic too, and redeliveries of
\* events that were applied (D, causes first); every event in a topic has a
\* handler instance that can take it
ReorderInit ==
    \E D \in SUBSET OneTicket, Q \in SUBSET OneTicket, now \in Times :
        /\ Q # {}
        /\ Cardinality(Q) <= Instances
        /\ CausallyClosed(D)
        /\ CausallyClosed(D \cup Q)
        /\ readModel = ApplyInOrder([b \in BookingIds |-> NoRow], D, 1, now)
        /\ msg = [e \in EventIds |->
                    [NoMsg EXCEPT !.phase = IF e \in Q THEN "queued" ELSE "absent",
                                  !.acks = IF e \in D THEN 1 ELSE 0]]

ReorderStart == OutboxInit /\ ReorderInit /\ IngressIdle /\ SvcIdle

ReorderSpec == ReorderStart /\ [][RouterNext]_vars

\* every handler of the read model has its own subscriber and goroutine: an
\* event that is in its topic is delivered, and a handler that runs goes on
ReorderLive ==
    /\ ReorderSpec
    /\ \A e \in OneTicket :
         /\ WF_vars(Deliver(e))
         /\ WF_vars(\/ OnBookingMade(e)
                    \/ updateByBookingIDFind(e) \/ updateByBookingIDWrite(e)
                    \/ updateByTicketIDFind(e) \/ updateByTicketIDWrite(e))

FanStart == OutboxInit /\ RouterIdle /\ IngressIdle /\ FanInit

\* the handlers of one TicketBookingConfirmed event
FanSpec == FanStart /\ [][FanNext]_vars

\* the same, every subscriber and handler scheduled whenever it can take a
\* step; what the handlers call fails finitely often and works again
FanLive ==
    /\ FanSpec
    /\ \A g \in HandlerGroups : WF_vars(FanDeliver(g)) /\ WF_vars(FanHandle(g))
    /\ \A h \in ConfirmedHandlers : WF_vars(FanRecovery(h))

\* Service.Run from the start of its goroutines to its return
ServiceSpec == OutboxStart /\ [][SvcNext]_vars

\* an attempt of the handler of the group's delivery, however it ends
Handle(g) == events_splitter(g) \/ store_to_data_lake(g) \/ HandlerPanic(g)

(***************************************************************************)
(* The way of a BookingMade event: business transaction, outbox,           *)
(* forwarder, topic events, splitter, topic events.BookingMade_v1, read     *)
(* model. The sink and the other handlers are left out: they read through  *)
(* consumer groups of their own.                                           *)
(***************************************************************************)
\* the transactions of the pipeline: one per booking of the model
PipeTx == {t \in TxIds : t <= Cardinality(BookingIds)}

\* the booking transaction t makes, and the message of its BookingMade event
BookingOfTx(t) == IF t = 1 THEN "B1" ELSE "B2"
MsgOfTx(t) ==
    CHOOSE m \in MsgIds : /\ NameFromMessage(m) = "BookingMade_v1"
                          /\ IngressMsg[m].payload.booking_id = BookingOfTx(t)

\* the event a message on events.BookingMade_v1 unmarshals to
EventOfMsg(m) ==
    CHOOSE e \in Creating : Event[e].booking_id = IngressMsg[m].payload.booking_id

RECURSIVE SumAcks(_)
SumAcks(S) ==
    IF S = {} THEN 0
    ELSE LET e == CHOOSE x \in S : TRUE IN msg[e].acks + SumAcks(S \ {e})

\* the broker: a message the forwarder published is on the stream the
\* consumer groups of the topic events read
EventsToTopic ==
    /\ Len(topic) < Len(events)
    /\ topic' = Append(topic, MsgOfTx(events[Len(topic) + 1]))
    /\ UNCHANGED <<grp, perType, lake, pubUp, panicked, up>>
    /\ UNCHANGED <<outboxVars, routerVars, svcVars>>

\* the broker stops taking the splitter's messages; finitely often
BrokerOutage ==
    /\ pubUp
    /\ faults < PipeFaults
    /\ faults' = faults + 1
    /\ pubUp' = FALSE
    /\ UNCHANGED <<tx, bookings, outbox, fwdPc, fwdBatch, fwdPos, events>>
    /\ UNCHANGED <<topic, grp, perType, lake, panicked, up>>
    /\ UNCHANGED <<routerVars, svcVars>>

\* the broker takes messages again
BrokerBack ==
    /\ ~pubUp
    /\ pubUp' = TRUE
    /\ UNCHANGED <<topic, grp, perType, lake, panicked, up>>
    /\ UNCHANGED <<outboxVars, routerVars, svcVars>>

\* the subscriber of ops_read_model.OnBookingMade takes the next message of
\* events.BookingMade_v1: its group is past as many messages as it acknowledged
TakeBookingMade ==
    LET stream == perType[TopicOf("BookingMade_v1")]
        next == SumAcks(Creating) + 1
    IN  /\ next <= Len(stream)
        /\ \A e \in Creating : msg[e].phase \in {"absent", "acked"}
        /\ msg' = [msg EXCEPT ![EventOfMsg(stream[next])].phase = "queued"]
        /\ UNCHANGED readModel
        /\ UNCHANGED <<outboxVars, ingressVars, svcVars>>

PipeNext ==
    \/ \E t \in PipeTx : TxBegin(t)
    \/ \E t \in PipeTx : TxStoreBooking(t)
    \/ \E t \in PipeTx : TxStoreEvent(t)
    \/ \E t \in PipeTx : TxCommit(t)
    \/ \E t \in PipeTx : TxAbort(t)
    \/ FwdStart
    \/ FwdFetch
    \/ FwdPublish
    \/ faults < PipeFaults /\ FwdPublishFail
    \/ FwdMark
    \/ faults < PipeFaults /\ FwdCrash
    \/ EventsToTopic
    \/ IngressDeliver(SplitterGroup)
    \/ events_splitter(SplitterGroup)
    \/ BrokerOutage
    \/ BrokerBack
    \/ TakeBookingMade
    \/ \E e \in Creating : Deliver(e)
    \/ \E e \in Creating : OnBookingMade(e)

\* the whole way of a BookingMade event
PipeSpec == OutboxStart /\ [][PipeNext]_vars

\* the same, every component scheduled whenever it can take a step; crashes,
\* publish failures and broker outages are finitely many
PipeLive ==
    /\ PipeSpec
    /\ WF_vars(Forwarder)
    /\ WF_vars(EventsToTopic)
    /\ WF_vars(IngressDeliver(SplitterGroup))
    /\ WF_vars(events_splitter(SplitterGroup))
    /\ WF_vars(BrokerBack)
    /\ WF_vars(TakeBookingMade)
    /\ WF_vars(\E e \in Creating : Deliver(e))
    /\ WF_vars(\E e \in Creating : OnBookingMade(e))


(***************************************************************************)
(* Claims about the outbox and the forwarder (OutboxSpec, OutboxLive).     *)
(***************************************************************************)
Committed == {t \in TxIds : tx[t].status = "committed"}
InOutbox == {outbox[i].id : i \in DOMAIN outbox}
Forwarded == {outbox[i].id : i \in {j \in DOMAIN outbox : outbox[j].forwarded}}
Published == Range(events)
\* the records FetchUnforwarded returns, however large the batch
Visible == {outbox[i].id : i \in Range(FetchUnforwarded(outbox, Len(outbox)))}

\* C1: under OutboxLive (the forwarder loop keeps being scheduled, crashes and
\* publish failures are finitely many) every record whose transaction
\* committed is eventually published to the broker, whatever crashes and
\* restarts happen before it is marked forwarded.
AtLeastOnceForwarding ==
    \A t \in TxIds : (tx[t].status = "committed") ~> (t \in Published)

\* a record published twice because the forwarder crashed or failed between
\* its publish and its mark, and then marked
AtLeastOnceWitness ==
    \E i \in DOMAIN outbox :
        /\ outbox[i].forwarded
        /\ Cardinality({k \in DOMAIN events : events[k] = outbox[i].id}) >= 2
        /\ faults > 0

\* C2: a record is visible to the forwarder only if its transaction
\* committed, every committed record that is not yet forwarded is visible,
\* and a transaction that is open or aborted has left neither its business
\* row nor its outbox record in the tables.
TransactionalVisibility ==
    /\ Visible \subseteq Committed
    /\ (Committed \ Forwarded) \subseteq Visible
    /\ InOutbox = Committed
    /\ bookings = Committed
    /\ Len(outbox) = Cardinality(InOutbox)

\* one transaction aborted after it staged both writes and left nothing,
\* another one committed and its record is visible
VisibilityWitness ==
    /\ \E t \in TxIds : tx[t].status = "aborted" /\ tx[t].booking /\ tx[t].event
    /\ \E t \in TxIds : tx[t].status = "committed" /\ t \in Visible

\* C3: every record marked forwarded was published before (publish, then
\* mark), and a record that was published and is not marked is among the
\* records the next FetchUnforwarded returns, also after a crash and restart.
PublishThenMark ==
    \A i \in DOMAIN outbox :
        /\ outbox[i].forwarded => outbox[i].id \in Published
        /\ (outbox[i].id \in Published /\ ~outbox[i].forwarded)
             => i \in Range(FetchUnforwarded(outbox, BatchSize))

\* the forwarder crashed after a publish and before the mark, and restarted:
\* the published record is unmarked and the next fetch returns it
PublishThenMarkWitness ==
    /\ faults > 0
    /\ fwdPc = "idle"
    /\ \E i \in DOMAIN outbox :
         /\ outbox[i].id \in Published
         /\ ~outbox[i].forwarded
         /\ i \in Range(FetchUnforwarded(outbox, BatchSize))
    /\ \E i \in DOMAIN outbox : outbox[i].forwarded


(***************************************************************************)
(* Claims about the read model and the deliveries (Spec).                  *)
(***************************************************************************)
Updating == ByBooking \cup ByTicket
\* the events whose handler has succeeded
Succeeded == {e \in EventIds : msg[e].acks > 0}
\* the creating event of the booking that event e names
BMOf(e) == CHOOSE m \in Creating : Event[m].booking_id = Event[e].booking_id
\* the read model without its last_update
Strip(rm) == [rm EXCEPT !.last_update = 0]
\* the read model after BookingMade m alone
Created(m) == NewBooking(m, 0)
TicketFields == DOMAIN ZeroTicket
\* the fields of a ticket the handler of an event of this name writes
OwnFields(name) ==
    CASE name = "TicketBookingConfirmed_v1" ->
           {"price_amount", "price_currency", "customer_email", "confirmed_at"}
      [] name = "TicketPrinted_v1" -> {"printed_at", "printed_file_name"}
      [] name = "TicketReceiptIssued_v1" -> {"receipt_issued_at", "receipt_number"}
      [] name = "TicketRefunded_v1" -> {"refunded_at"}
      [] OTHER -> {}
\* what event e says about its ticket, as a whole ticket
Facts(e) ==
    IF e \in ByBooking THEN ConfirmedUpdate(Created(BMOf(e)), e).tickets[Event[e].ticket_id]
    ELSE TicketUpdate(ZeroTicket, e)
\* some row holds the ticket of e with the fields e writes set as e says
Applied(e) ==
    \E b \in BookingIds :
        /\ readModel[b].exists
        /\ Event[e].ticket_id \in DOMAIN readModel[b].payload.tickets
        /\ \A f \in OwnFields(Event[e].name) :
             readModel[b].payload.tickets[Event[e].ticket_id][f] = Facts(e)[f]

\* C4 as amended: TicketBookingConfirmed is acknowledged only once the
\* BookingMade of its booking has been applied; a delivery of it that ends
\* while BookingMade has not been applied is negative-acknowledged after
\* all its retries and leaves no row; and once both are acknowledged the
\* booking (without last_update) is the one got in causal order: booked_at
\* of BookingMade, the ticket with the fields of TicketBookingConfirmed.
OutOfOrderConvergence ==
    \A e \in ByBooking :
        LET m == BMOf(e)
            b == Event[e].booking_id
        IN  /\ msg[e].acks > 0 => msg[m].acks > 0
            /\ (msg[m].acks = 0 /\ msg[e].phase = "queued" /\ msg[e].attempts > 0)
                 => /\ msg[e].nacked
                    /\ msg[e].attempts = MaxRetries + 1
                    /\ ~readModel[b].exists
            /\ (msg[e].acks > 0 /\ msg[m].acks > 0)
                 => /\ readModel[b].exists
                    /\ readModel[b].payload.booked_at = Event[m].published_at
                    /\ Applied(e)
                    /\ Succeeded = {m, e}
                         => Strip(readModel[b].payload) = ConfirmedUpdate(Created(m), e)

\* TicketBookingConfirmed arrived first, was negative-acknowledged, and a
\* redelivery after BookingMade succeeded: the booking is complete
OutOfOrderWitness ==
    /\ Succeeded = {"BM1", "TC11"}
    /\ msg["TC11"].nacked
    /\ msg["TC11"].phase = "acked"
    /\ msg["BM1"].phase = "acked"
    /\ Strip(readModel["B1"].payload) = ConfirmedUpdate(Created("BM1"), "TC11")

\* C4 as stated: a delivery of TicketBookingConfirmed in which an attempt
\* found no booking does not succeed (it is negative-acknowledged, and the
\* event succeeds only on a redelivery).
ConfirmedFirstSucceedsOnlyOnRedelivery ==
    [][\A e \in ByBooking :
         msg'[e].acks > msg[e].acks => msg[e].lasterr # ErrNoRows]_vars

\* C5: no acknowledged update is lost: whenever events that update the same
\* booking have been acknowledged, also when their transactions overlapped,
\* the stored booking holds the fields written by each of them.
NoLostUpdate == \A e \in Updating : msg[e].acks > 0 => Applied(e)

\* TicketPrinted and TicketRefunded of one ticket ran in overlapping
\* transactions: one of them failed to serialize, was run again, and both
\* are acknowledged and stored
NoLostUpdateWitness ==
    /\ msg["TP1"].phase = "acked"
    /\ msg["TR1"].phase = "acked"
    /\ msg["TP1"].serfail \/ msg["TR1"].serfail
    /\ Applied("TP1")
    /\ Applied("TR1")

\* C6: a handler that succeeds writes only the fields of its event type, of
\* its own ticket: every other field of every ticket of every booking, and
\* booked_at, are as before, and no ticket or row goes away.
FieldIsolation ==
    [][\A e \in Updating :
         msg'[e].acks > msg[e].acks =>
           \A b \in BookingIds :
             readModel[b].exists =>
               /\ readModel'[b].exists
               /\ readModel'[b].payload.booked_at = readModel[b].payload.booked_at
               /\ \A t \in DOMAIN readModel[b].payload.tickets :
                    /\ t \in DOMAIN readModel'[b].payload.tickets
                    /\ \A f \in TicketFields :
                         (t # Event[e].ticket_id \/ f \notin OwnFields(Event[e].name))
                           => readModel'[b].payload.tickets[t][f]
                                = readModel[b].payload.tickets[t][f]]_vars

\* the ticket was printed and refunded, confirmed before: the three facts
\* are in the row together
FieldIsolationWitness ==
    /\ msg["TP1"].phase = "acked"
    /\ msg["TR1"].phase = "acked"
    /\ ~msg["TP1"].serfail
    /\ ~msg["TR1"].serfail
    /\ readModel["B1"].exists
    /\ "T1" \in DOMAIN readModel["B1"].payload.tickets
    /\ readModel["B1"].payload.tickets["T1"].printed_at = Event["TP1"].published_at
    /\ readModel["B1"].payload.tickets["T1"].refunded_at = Event["TR1"].published_at
    /\ readModel["B1"].payload.tickets["T1"].confirmed_at = Event["TC11"].published_at

\* C7: BookingMade never returns an error; applied to a booking that has a
\* row it changes nothing in the table (tickets and fields added in between
\* stay); applied to a booking without a row it creates that one row, empty.
RedeliveryIdempotence ==
    /\ [](\A e \in Creating : msg[e].lasterr = ErrNone /\ ~msg[e].nacked)
    /\ [][\A e \in Creating :
            msg'[e].acks > msg[e].acks =>
              IF readModel[Event[e].booking_id].exists
              THEN readModel' = readModel
              ELSE /\ readModel'[Event[e].booking_id].exists
                   /\ Strip(readModel'[Event[e].booking_id].payload) = Created(e)
                   /\ \A b \in BookingIds \ {Event[e].booking_id} :
                        readModel'[b] = readModel[b]]_vars

\* BookingMade was applied twice and the ticket confirmed for the booking is
\* in the row
RedeliveryWitness ==
    /\ msg["BM1"].acks = 2
    /\ msg["BM1"].phase = "acked"
    /\ msg["TC11"].acks >= 1
    /\ Strip(readModel["B1"].payload) = ConfirmedUpdate(Created("BM1"), "TC11")

\* C8: an attempt of a non-creating handler that finds no aggregate returns
\* an error: the table is unchanged, the message is not acknowledged by it,
\* and it is negative-acknowledged when that was the last retry.
MissingAggregateIsRetryable ==
    [][\A e \in Updating :
         (msg[e].phase = "processing" /\ Lookup(readModel, e) = {} /\ msg'[e] # msg[e])
           => /\ readModel' = readModel
              /\ msg'[e].lasterr = ErrNoRows
              /\ msg'[e].acks = msg[e].acks
              /\ IF msg[e].attempts < MaxRetries
                 THEN msg'[e].phase = "processing"
                 ELSE msg'[e].phase = "queued" /\ msg'[e].nacked]_vars

\* TicketPrinted was negative-acknowledged because no row holds its ticket:
\* the booking is there, still without tickets
MissingAggregateWitness ==
    /\ msg["TP1"].phase = "queued"
    /\ msg["TP1"].nacked
    /\ msg["TP1"].lasterr = ErrNoRows
    /\ msg["TP1"].acks = 0
    /\ Lookup(readModel, "TP1") = {}
    /\ readModel["B1"].exists
    /\ readModel["B1"].payload.tickets = EmptyTickets

\* C9: a handler is invoked at most 1 + MaxRetries times in one delivery,
\* and a delivery whose last permitted attempt failed is
\* negative-acknowledged: the message is queued for redelivery, not
\* acknowledged.
BoundedRetriesThenNack ==
    \A e \in EventIds :
        /\ msg[e].attempts <= MaxRetries + 1
        /\ (~Running(msg[e]) /\ msg[e].lasterr # ErrNone)
             => /\ msg[e].attempts = MaxRetries + 1
                /\ msg[e].phase = "queued"
                /\ msg[e].nacked

\* TicketBookingConfirmed failed four times in one delivery and is queued
BoundedRetriesWitness ==
    \E e \in ByBooking :
        /\ msg[e].phase = "queued"
        /\ msg[e].attempts = MaxRetries + 1
        /\ msg[e].lasterr # ErrNone
        /\ msg[e].nacked

\* C10 as amended: a delivery ends acknowledged exactly when its last attempt
\* returned nil; a delivery whose attempts all returned an error ends after
\* the first attempt and MaxRetries retries, negative-acknowledged.
RetriedThenNacked ==
    [][\A e \in EventIds :
         (Running(msg[e]) /\ ~Running(msg'[e]))
           => IF msg'[e].lasterr # ErrNone
              THEN /\ msg'[e].phase = "queued"
                   /\ msg'[e].nacked
                   /\ msg'[e].acks = msg[e].acks
                   /\ msg'[e].attempts = MaxRetries + 1
              ELSE /\ msg'[e].phase = "acked"
                   /\ msg'[e].acks = msg[e].acks + 1]_vars

\* a ticket event used up its retries and was never acknowledged
RetriedThenNackedWitness ==
    \E e \in ByTicket :
        /\ msg[e].phase = "queued"
        /\ msg[e].attempts = MaxRetries + 1
        /\ msg[e].lasterr # ErrNone
        /\ msg[e].acks = 0

\* C10 as stated: after the retries are used up the message is acknowledged.
RetriedThenAcked ==
    \A e \in EventIds :
        (msg[e].lasterr # ErrNone /\ msg[e].attempts = MaxRetries + 1 /\ ~Running(msg[e]))
          => msg[e].phase = "acked"

(***************************************************************************)
(* Claims about the splitter and the data lake sink (IngressSpec).         *)
(***************************************************************************)
\* the errors that can never go away on a redelivery: the message has no
\* event name in its metadata
PermanentErrors == {ErrNoName}
\* the positions of the topic the group has acknowledged
Acked(g) == 1..(grp[g].pos - 1)

\* C11 as stated: an attempt that ends with a permanent error ends the
\* delivery with an acknowledgement, without a retry.
PermanentErrorIsAcked ==
    [][\A g \in Groups :
         (/\ grp[g].phase = "processing"
          /\ grp'[g] # grp[g]
          /\ grp'[g].lasterr \in PermanentErrors)
           => /\ grp'[g].phase = "idle"
              /\ grp'[g].pos = grp[g].pos + 1]_vars

\* C12: an attempt of a delivery ends in one of three ways: the handler is
\* run again (an error, retries left), the message is acknowledged (the
\* chain returned nil; the group moves on), or it is negative-acknowledged
\* (the chain returned an error; the group stays on the message), never two
\* of them; and no delivery is left without an outcome: while it is in
\* progress it has attempts left and its handler can run.
OneTerminalOutcome ==
    /\ [][\A g \in Groups :
            (grp[g].phase = "processing" /\ grp'[g] # grp[g]) =>
              LET retried == /\ grp'[g].phase = "processing"
                             /\ grp'[g].pos = grp[g].pos
                             /\ grp'[g].lasterr # ErrNone
                             /\ grp'[g].attempts <= MaxRetries
                  acked   == /\ grp'[g].phase = "idle"
                             /\ grp'[g].pos = grp[g].pos + 1
                             /\ grp'[g].lasterr = ErrNone
                             /\ ~grp'[g].nacked
                  nacked  == /\ grp'[g].phase = "idle"
                             /\ grp'[g].pos = grp[g].pos
                             /\ grp'[g].lasterr # ErrNone
                             /\ grp'[g].nacked
              IN  retried \/ acked \/ nacked]_vars
    /\ [](\A g \in Groups :
            /\ grp[g].phase \in {"idle", "processing"}
            /\ grp[g].phase = "processing"
                 => grp[g].attempts <= MaxRetries /\ ENABLED Handle(g))

\* the sink has acknowledged a message and the splitter has
\* negative-acknowledged the same message after its retries
OneTerminalOutcomeWitness ==
    /\ grp[SinkGroup].pos = 2
    /\ grp[SplitterGroup].pos = 1
    /\ grp[SplitterGroup].phase = "idle"
    /\ grp[SplitterGroup].nacked
    /\ grp[SplitterGroup].attempts = MaxRetries + 1
    /\ NameFromMessage(topic[1]) # ""

\* how often message m is on the topics events.<name>
Republished(m) ==
    IF NameFromMessage(m) = "" THEN 0
    ELSE Cardinality({k \in DOMAIN perType[TopicOf(NameFromMessage(m))] :
                        perType[TopicOf(NameFromMessage(m))][k] = m})

\* C13: an attempt of the splitter whose publish fails returns the error:
\* nothing is published, the message is not acknowledged by it, and after the
\* last retry it is negative-acknowledged; and every message the splitter
\* has acknowledged is on its topic events.<name>, once for each
\* acknowledgement at least.
PublishFailureFailsDelivery ==
    /\ [][\A g \in Groups :
            (/\ grp[g].phase = "processing"
             /\ grp[g].handler = "events_splitter"
             /\ grp'[g] # grp[g]
             /\ grp'[g].lasterr = ErrPublish)
              => /\ perType' = perType
                 /\ grp'[g].pos = grp[g].pos
                 /\ IF grp[g].attempts < MaxRetries
                    THEN grp'[g].phase = "processing"
                    ELSE grp'[g].phase = "idle" /\ grp'[g].nacked]_vars
    /\ [](\A m \in MsgIds :
            Republished(m)
              >= Cardinality({i \in Acked(SplitterGroup) : topic[i] = m}))

\* the publish failed on every attempt of a delivery of the splitter: the
\* message is negative-acknowledged and on no topic events.<name>
PublishFailureWitness ==
    /\ grp[SplitterGroup].pos = 1
    /\ grp[SplitterGroup].phase = "idle"
    /\ grp[SplitterGroup].nacked
    /\ grp[SplitterGroup].lasterr = ErrPublish
    /\ grp[SplitterGroup].attempts = MaxRetries + 1
    /\ Republished(topic[1]) = 0

\* C14: a panic in a handler ends the delivery of that message with a
\* negative acknowledgement and changes nothing else: the process stays up,
\* the deliveries of the other group, the topics and the data lake are
\* untouched, and every group with a message left is handed it.
PanicIsDeliveryFailure ==
    /\ [][\A g \in Groups :
            (/\ grp[g].phase = "processing"
             /\ grp'[g] # grp[g]
             /\ grp'[g].lasterr = Panic)
              => /\ up'
                 /\ grp'[g].phase = "idle"
                 /\ grp'[g].nacked
                 /\ grp'[g].pos = grp[g].pos
                 /\ \A o \in Groups \ {g} : grp'[o] = grp[o]
                 /\ perType' = perType
                 /\ lake' = lake]_vars
    /\ [](/\ up
          /\ \A g \in Groups :
               (grp[g].phase = "idle" /\ grp[g].pos <= Len(topic))
                 => ENABLED IngressDeliver(g))

\* the splitter panicked on the first of two messages; it was handed the
\* message again and then the second one, and the sink took both
PanicWitness ==
    /\ panicked = {<<"events_splitter", 1>>}
    /\ Len(topic) = 2
    /\ grp[SplitterGroup].pos = 3
    /\ grp[SinkGroup].pos = 3
    /\ up

\* the rows of the data lake that hold the event of message m
RowsOf(m) ==
    {i \in DOMAIN lake : /\ lake[i].event_payload = IngressMsg[m].payload
                         /\ lake[i].event_name = NameFromMessage(m)}

\* C15: however often the sink is handed an event, the data lake holds one
\* row for its event id; an attempt of the sink on an event that is stored
\* already leaves the data lake as it is and the delivery is acknowledged.
IdempotentArchival ==
    /\ [][(/\ grp[SinkGroup].phase = "processing"
           /\ grp'[SinkGroup] # grp[SinkGroup]
           /\ grp'[SinkGroup].lasterr # Panic
           /\ RowsOf(Current(SinkGroup)) # {})
            => /\ lake' = lake
               /\ grp'[SinkGroup].lasterr = ErrNone
               /\ grp'[SinkGroup].phase = "idle"
               /\ grp'[SinkGroup].pos = grp[SinkGroup].pos + 1]_vars
    /\ [](/\ \A i, j \in DOMAIN lake : lake[i].event_id = lake[j].event_id => i = j
          /\ \A m \in Storable :
               /\ Cardinality(RowsOf(m)) <= 1
               /\ (\E i \in Acked(SinkGroup) : topic[i] = m)
                    => Cardinality(RowsOf(m)) = 1
                       /\ \E i \in RowsOf(m) : lake[i].event_id = Unmarshal(m).Header.id)

\* the same event was on the topic twice; the sink acknowledged both
\* deliveries without a failed attempt and the data lake holds one row
IdempotentArchivalWitness ==
    /\ Len(topic) = 2
    /\ topic[1] = topic[2]
    /\ topic[1] \in Storable
    /\ grp[SinkGroup].pos = 3
    /\ panicked = {}
    /\ Len(lake) = 1

\* C16: the splitter and the sink read the topic events through two consumer
\* groups. A step of one group's delivery leaves the other group's delivery
\* and the other handler's output as they are; a group is handed its next
\* message and its handler can run whatever state the other group is in, a
\* group that keeps negative-acknowledging included; so every message the
\* sink acknowledged is archived and every message the splitter acknowledged
\* is routed.
IndependentConsumerGroups ==
    /\ [][/\ \A g \in Groups :
               grp'[g] # grp[g] => \A o \in Groups \ {g} : grp'[o] = grp[o]
          /\ grp'[SplitterGroup] # grp[SplitterGroup] => lake' = lake
          /\ grp'[SinkGroup] # grp[SinkGroup] => perType' = perType]_vars
    /\ [](/\ \A g \in Groups :
               (grp[g].phase = "idle" /\ grp[g].pos <= Len(topic))
                 => ENABLED IngressDeliver(g)
          /\ grp[SplitterGroup].phase = "processing"
               => ENABLED events_splitter(SplitterGroup)
          /\ grp[SinkGroup].phase = "processing"
               => ENABLED store_to_data_lake(SinkGroup)
          /\ \A i \in Acked(SinkGroup) : RowsOf(topic[i]) # {}
          /\ \A i \in Acked(SplitterGroup) : Republished(topic[i]) > 0)

\* the splitter negative-acknowledged the first message after its last retry
\* and is not past it; the sink archived that message and the one after it
SplitterStuckSinkArchives ==
    /\ Len(topic) = 2
    /\ grp[SplitterGroup].pos = 1
    /\ grp[SplitterGroup].nacked
    /\ grp[SplitterGroup].attempts = MaxRetries + 1
    /\ grp[SinkGroup].pos = 3
    /\ RowsOf(topic[1]) # {}
    /\ RowsOf(topic[2]) # {}
    /\ topic[1] # topic[2]

\* the sink negative-acknowledged the first message after its last retry and
\* is not past it; the splitter routed that message and the one after it
SinkStuckSplitterRoutes ==
    /\ Len(topic) = 2
    /\ grp[SinkGroup].pos = 1
    /\ grp[SinkGroup].nacked
    /\ grp[SinkGroup].attempts = MaxRetries + 1
    /\ grp[SplitterGroup].pos = 3
    /\ Republished(topic[1]) > 0
    /\ Republished(topic[2]) > 0
    /\ topic[1] # topic[2]

\* C17 as stated: the first attempt of the splitter on a message without an
\* event name ends the delivery with an acknowledgement; the message is not
\* published, not tried again and not handed to the splitter again.
NamelessIsAckedUnrouted ==
    [][(/\ grp[SplitterGroup].phase = "processing"
        /\ grp[SplitterGroup].handler = "events_splitter"
        /\ NameFromMessage(Current(SplitterGroup)) = ""
        /\ grp'[SplitterGroup] # grp[SplitterGroup]
        /\ grp'[SplitterGroup].lasterr # Panic)
         => /\ grp'[SplitterGroup].phase = "idle"
            /\ ~grp'[SplitterGroup].nacked
            /\ grp'[SplitterGroup].pos = grp[SplitterGroup].pos + 1
            /\ perType' = perType]_vars

\* C18 as stated: the first attempt of the sink on a message whose payload
\* does not unmarshal ends the delivery with an acknowledgement; nothing is
\* stored, the message is not tried again and not negative-acknowledged.
MalformedIsAckedUnstored ==
    [][(/\ grp[SinkGroup].phase = "processing"
        /\ grp[SinkGroup].handler = "store_to_data_lake"
        /\ NameFromMessage(Current(SinkGroup)) # ""
        /\ Unmarshal(Current(SinkGroup)).err
        /\ grp'[SinkGroup] # grp[SinkGroup]
        /\ grp'[SinkGroup].lasterr # Panic)
         => /\ grp'[SinkGroup].phase = "idle"
            /\ ~grp'[SinkGroup].nacked
            /\ grp'[SinkGroup].pos = grp[SinkGroup].pos + 1
            /\ lake' = lake]_vars

\* C19: an attempt of the splitter on a message with an event name, made
\* while the publisher works, appends the message to events.<name> and the
\* delivery is acknowledged, whatever the payload is; the splitter never ends
\* an attempt with the error of an unmarshal.
MetadataOnlyRouting ==
    /\ [][(/\ grp[SplitterGroup].phase = "processing"
           /\ grp[SplitterGroup].handler = "events_splitter"
           /\ NameFromMessage(Current(SplitterGroup)) # ""
           /\ pubUp
           /\ grp'[SplitterGroup] # grp[SplitterGroup]
           /\ grp'[SplitterGroup].lasterr # Panic)
            => /\ perType' =
                    [perType EXCEPT ![TopicOf(NameFromMessage(Current(SplitterGroup)))] =
                                       Append(@, Current(SplitterGroup))]
               /\ grp'[SplitterGroup].lasterr = ErrNone
               /\ grp'[SplitterGroup].phase = "idle"
               /\ grp'[SplitterGroup].pos = grp[SplitterGroup].pos + 1]_vars
    /\ [](grp[SplitterGroup].lasterr \in {ErrNone, ErrNoName, ErrPublish, Panic})

\* two messages with the name TicketPrinted_v1, one with a JSON payload and
\* one whose payload is no JSON: the splitter acknowledged both and both are
\* on events.TicketPrinted_v1
MetadataOnlyWitness ==
    /\ topic = <<"printed", "broken">>
    /\ grp[SplitterGroup].pos = 3
    /\ perType[TopicOf("TicketPrinted_v1")] = <<"printed", "broken">>
    /\ ~grp[SplitterGroup].nacked

\* The order of the events of a ticket (specification Spec).

\* the TicketBookingConfirmed events of the ticket of e
Confirms(e) == {c \in ByBooking : Event[c].ticket_id = Event[e].ticket_id}
\* the booking the ticket of e belongs to
BookingOf(e) == Event[CHOOSE c \in Confirms(e) : TRUE].booking_id

\* C20 as stated: once the row of the booking exists, no attempt of an event
\* of one of its tickets fails for want of the read model.
AnyOrderOnceCreated ==
    [][\A e \in Updating :
         (/\ msg[e].phase = "processing"
          /\ msg'[e] # msg[e]
          /\ readModel[BookingOf(e)].exists)
           => msg'[e].lasterr # ErrNoRows]_vars

\* C20 as amended: once the row of the booking exists TicketBookingConfirmed
\* finds it; TicketPrinted, TicketReceiptIssued and TicketRefunded find the
\* row of their ticket once a TicketBookingConfirmed of that ticket has
\* succeeded, in any order among themselves, and find none before; an
\* attempt fails for want of the read model only when none is found (a
\* retryable error, C8), and an attempt that finds it succeeds unless a
\* concurrent update of the row makes its transaction fail.
AnyOrderOnceConfirmed ==
    /\ [][\A e \in Updating :
            (msg[e].phase = "processing" /\ msg'[e] # msg[e])
              => IF Lookup(readModel, e) = {}
                 THEN msg'[e].phase # "inTx" /\ msg'[e].lasterr = ErrNoRows
                 ELSE msg'[e].phase = "inTx"]_vars
    /\ [][\A e \in Updating :
            (msg[e].phase = "inTx" /\ msg'[e] # msg[e] /\ msg'[e].phase # "inTx")
              => \/ msg'[e].lasterr = ErrNone /\ msg'[e].acks = msg[e].acks + 1
                 \/ msg'[e].lasterr = ErrSerialization /\ msg[e].stale]_vars
    /\ [](/\ \A c \in ByBooking :
               readModel[Event[c].booking_id].exists => Lookup(readModel, c) # {}
          /\ \A e \in ByTicket :
               Lookup(readModel, e) # {} <=> Confirms(e) \cap Succeeded # {})

\* after BookingMade and TicketBookingConfirmed, TicketPrinted and
\* TicketRefunded of the ticket were both delivered and acknowledged, neither
\* negative-acknowledged, and the ticket holds what both say
AnyOrderWitness ==
    /\ msg["TP1"].phase = "acked"
    /\ msg["TR1"].phase = "acked"
    /\ ~msg["TP1"].nacked /\ ~msg["TR1"].nacked
    /\ msg["TP1"].lasterr = ErrNone /\ msg["TR1"].lasterr = ErrNone
    /\ ~msg["TP1"].serfail /\ ~msg["TR1"].serfail
    /\ readModel["B1"].payload.tickets["T1"].printed_at = Event["TP1"].published_at
    /\ readModel["B1"].payload.tickets["T1"].refunded_at = Event["TR1"].published_at

\* C21: an attempt of a non-creating event that was applied before finds its
\* row; when it writes, every row of the table is, last_update aside, what it
\* was, and the attempt returns no error; the one attempt that does not write
\* is the transaction a concurrent update of the row made fail.
ReplayIdempotence ==
    /\ [][\A e \in Updating :
            (msg[e].acks >= 1 /\ msg[e].phase = "processing" /\ msg'[e] # msg[e])
              => msg'[e].phase = "inTx" /\ readModel' = readModel]_vars
    /\ [][\A e \in Updating :
            (msg[e].acks >= 1 /\ msg[e].phase = "inTx" /\ msg'[e].phase # "inTx")
              => \/ /\ msg'[e].lasterr = ErrNone
                    /\ msg'[e].acks = msg[e].acks + 1
                    /\ \A b \in BookingIds :
                         /\ readModel'[b].exists = readModel[b].exists
                         /\ readModel[b].exists
                              => Strip(readModel'[b].payload) = Strip(readModel[b].payload)
                 \/ /\ msg[e].stale
                    /\ msg'[e].lasterr = ErrSerialization
                    /\ readModel' = readModel]_vars

\* TicketBookingConfirmed was applied a second time, after TicketPrinted of
\* its ticket: the ticket holds what both say
ReplayWitness ==
    /\ msg["TC11"].acks = 2
    /\ msg["TC11"].phase = "acked"
    /\ msg["TP1"].acks >= 1
    /\ readModel["B1"].payload.tickets["T1"].printed_at = Event["TP1"].published_at
    /\ readModel["B1"].payload.tickets["T1"].confirmed_at = Event["TC11"].published_at

\* the ticket ids of the row of booking b
TicketsOf(table, b) == IF table[b].exists THEN DOMAIN table[b].payload.tickets ELSE {}

\* C22: no step removes a row of the read model or a ticket from a row: a
\* row that exists stays, under its booking id, and holds every ticket id it
\* held.
ReadModelOnlyGrows ==
    [][\A b \in BookingIds :
         /\ readModel[b].exists
              => /\ readModel'[b].exists
                 /\ readModel'[b].payload.booking_id = b
         /\ TicketsOf(readModel, b) \subseteq TicketsOf(readModel', b)]_vars

\* two tickets of one booking were confirmed by handlers running at the same
\* time; the transaction of one failed once and was retried, and the row
\* holds both tickets
OnlyGrowsWitness ==
    /\ msg["TC11"].phase = "acked"
    /\ msg["TC21"].phase = "acked"
    /\ msg["TC11"].serfail \/ msg["TC21"].serfail
    /\ TicketsOf(readModel, "B1") = {"T1", "T2"}

\* C23: under PipeLive (every component keeps being scheduled; crashes,
\* publish failures and broker outages are finitely many) every booking whose
\* transaction committed eventually has a row in the read model.
EventuallyProjected ==
    \A t \in PipeTx : (t \in bookings) ~> readModel[BookingOfTx(t)].exists

\* both bookings have their row; on the way a forwarder fault or a broker
\* outage happened and a BookingMade event went through the whole pipeline
\* twice
EventuallyProjectedWitness ==
    /\ bookings = PipeTx
    /\ \A t \in PipeTx : readModel[BookingOfTx(t)].exists
    /\ faults > 0
    /\ \E e \in Creating : msg[e].acks >= 2 /\ msg[e].phase = "acked"

\* C24: the records FetchUnforwarded returns are the oldest unforwarded
\* records of the outbox, oldest commit first; and as long as no publish has
\* failed and the forwarder has not crashed, the messages on the broker are the
\* records of the outbox in the order of their commits, each once.
CommitOrder ==
    LET f == FetchUnforwarded(outbox, BatchSize)
    IN  /\ \A i, j \in DOMAIN f : i < j => f[i] < f[j]
        /\ \A i \in DOMAIN f : ~outbox[f[i]].forwarded
        /\ \A q \in DOMAIN outbox :
             (~outbox[q].forwarded /\ q \notin Range(f))
               => Len(f) = BatchSize /\ \A i \in DOMAIN f : f[i] < q
        /\ faults = 0 =>
             /\ Len(events) <= Len(outbox)
             /\ \A k \in DOMAIN events : events[k] = outbox[k].id

\* the second transaction committed first; without a fault its record was
\* published first and the record of the first transaction after it
CommitOrderWitness ==
    /\ faults = 0
    /\ Len(outbox) = 2
    /\ outbox[1].id = 2
    /\ events = <<2, 1>>

\* C25: a record of the outbox stays where it is with the id, payload and
\* topic it was created with, and a forwarded record stays forwarded; and
\* MarkForwarded of records that are forwarded already changes nothing.
RecordImmutable ==
    /\ [][\A i \in DOMAIN outbox :
            /\ i \in DOMAIN outbox'
            /\ outbox'[i].id = outbox[i].id
            /\ outbox'[i].payload = outbox[i].payload
            /\ outbox'[i].topic = outbox[i].topic
            /\ outbox[i].forwarded => outbox'[i].forwarded]_vars
    /\ [](/\ \A i \in DOMAIN outbox :
               [outbox[i] EXCEPT !.forwarded = FALSE] = OutboxRecord(outbox[i].id)
          /\ \A ids \in SUBSET DOMAIN outbox :
               /\ (\A i \in ids : outbox[i].forwarded) => MarkForwarded(outbox, ids) = outbox
               /\ MarkForwarded(MarkForwarded(outbox, ids), ids) = MarkForwarded(outbox, ids))

\* the first record was marked forwarded, a second record was committed
\* after it and published, and the forwarder is about to mark
RecordImmutableWitness ==
    /\ Len(outbox) = 2
    /\ outbox[1] = [OutboxRecord(outbox[1].id) EXCEPT !.forwarded = TRUE]
    /\ outbox[2] = OutboxRecord(outbox[2].id)
    /\ fwdPc = "publishing"
    /\ fwdBatch = <<2>>
    /\ fwdPos = 1

\* C26 as stated, its last part: when Service.Run returns after the shutdown
\* signal, it returns no error.
ShutdownReturnsNoError ==
    svc.returned => svc.err = ErrNone

\* C27: the HTTP server is serving only when the router has closed its
\* channel Running(), and a request is accepted only then.
HttpAfterRouterRunning ==
    /\ [](svc.http = "serving" => svc.ready /\ svc.router # "starting")
    /\ [][svc'.requests > svc.requests
            => svc.ready /\ svc.router # "starting"]_vars

\* the router is running and handling a message, and the server, started
\* after it, is serving a request
HttpAfterRouterWitness ==
    /\ svc.router = "running"
    /\ svc.handling > 0
    /\ svc.http = "serving"
    /\ svc.requests > 0

ProjectorWritesOnlyReadModel ==
    /\ [][(readModel' # readModel \/ msg' # msg)
            => tx' = tx /\ bookings' = bookings /\ outbox' = outbox]_vars
    /\ [](/\ bookings = TxIds
          /\ outbox = [t \in TxIds |-> [OutboxRecord(t) EXCEPT !.forwarded = TRUE]]
          /\ \A t \in TxIds : tx[t].status = "committed")

\* one handler created a read model and was acknowledged, another found no
\* read model, failed every attempt and was negative-acknowledged, and the
\* bookings are the committed ones
ProjectorFrameWitness ==
    /\ bookings = TxIds
    /\ \E e \in Creating :
         /\ msg[e].phase = "acked"
         /\ readModel[Event[e].booking_id].exists
    /\ \E e \in EventIds \ Creating :
         /\ msg[e].nacked
         /\ msg[e].lasterr = ErrNoRows

\* the delivery of handler h's consumer group
DeliveryOf(h) == grp[ConsumerGroup(h)]

\* every message of the topic was handled by handler h and acknowledged
Drained(h) ==
    /\ DeliveryOf(h).pos = Len(topic) + 1
    /\ DeliveryOf(h).phase = "idle"
    /\ \A i \in DOMAIN topic :
         IF h = "events_splitter"
         THEN \E j \in DOMAIN perType[TopicOf(NameFromMessage(topic[i]))] :
                perType[TopicOf(NameFromMessage(topic[i]))][j] = topic[i]
         ELSE \E j \in DOMAIN lake :
                lake[j].event_id = Unmarshal(topic[i]).Header.id

\* C30: while the deployed build of a handler has the defect, no step
\* acknowledges or drops a message of that handler: the topic keeps the
\* message and the handler's consumer group stays at it, and a delivery that
\* the handler ends is negative-acknowledged and can be delivered again.
\* Under DefectLive, once no handler has the defect, every message of the
\* topic is eventually handled and acknowledged by every handler.
DefectRetainsThenDrains ==
    /\ [][/\ topic' = topic
          /\ \A h \in defect :
               /\ grp'[ConsumerGroup(h)].pos = DeliveryOf(h).pos
               /\ (/\ defect' = defect
                   /\ DeliveryOf(h).phase = "processing"
                   /\ grp'[ConsumerGroup(h)].phase = "idle")
                    => /\ grp'[ConsumerGroup(h)].nacked
                       /\ grp'[ConsumerGroup(h)].lasterr = ErrDefect]_vars
    /\ [](\A h \in Handlers :
            DeliveryOf(h).phase = "idle" /\ DeliveryOf(h).pos <= Len(topic)
              => ENABLED IngressDeliver(ConsumerGroup(h)))
    /\ (defect = {}) ~> (\A h \in Handlers : Drained(h))

\* both handlers had the defect and the corrected builds are deployed: the
\* sink's first message is still negative-acknowledged with the defect's
\* error and nothing is stored, the splitter has handled every message
DefectWitness ==
    /\ defect = {}
    /\ Len(topic) = MaxTopic
    /\ DeliveryOf("store_to_data_lake").nacked
    /\ DeliveryOf("store_to_data_lake").lasterr = ErrDefect
    /\ DeliveryOf("store_to_data_lake").pos = 1
    /\ lake = <<>>
    /\ Drained("events_splitter")

RECURSIVE Pow(_, _)
Pow(b, k) == IF k = 0 THEN 1 ELSE b * Pow(b, k - 1)

Min(a, b) == IF a <= b THEN a ELSE b

\* C31: the wait before retry k of a delivery is
\* min(InitialInterval * Multiplier^(k-1), MaxInterval): with the configured
\* values 400, 800 and 1000 ms; the waits never decrease and none is longer
\* than MaxInterval.
RetryDelays ==
    /\ Len(mw.delays) <= MaxRetries
    /\ \A k \in DOMAIN mw.delays :
         /\ mw.delays[k] = Min(InitialInterval * Pow(Multiplier, k - 1), MaxInterval)
         /\ mw.delays[k] = <<400, 800, 1000>>[k]
         /\ mw.delays[k] <= MaxInterval
         /\ k > 1 => mw.delays[k - 1] <= mw.delays[k]

\* a delivery whose handler failed at every attempt: three retries, after
\* three waits, and then the nack
RetryDelaysWitness ==
    /\ mw.phase = "nacked"
    /\ mw.attempts = MaxRetries + 1
    /\ Len(mw.delays) = MaxRetries
    /\ mw.delays[MaxRetries] = MaxInterval

\* the correlation ids that are in use: the message's own and the ones
\* of the messages published
UsedCorrelationIDs ==
    {mw.orig.correlation_id, mw.msg.correlation_id, mw.ctx}
      \cup {mw.published[i].msg.correlation_id : i \in DOMAIN mw.published}

\* C32: while the handler runs, the context holds a correlation id that is
\* not empty; the middleware takes the correlation_id of the metadata when
\* there is one and a newly generated one otherwise; and a message the
\* handler publishes holds the correlation id of the context in its metadata.
CorrelationPropagated ==
    /\ [](mw.phase = "handling" => mw.ctx # "")
    /\ [][mw.phase # "handling" /\ mw'.phase = "handling"
            => IF mw.msg.correlation_id # ""
               THEN mw'.ctx = mw.msg.correlation_id /\ mw'.generated = mw.generated
               ELSE /\ mw'.ctx = ShortUUID(mw'.generated)
                    /\ mw'.generated = mw.generated + 1
                    /\ mw'.ctx \notin UsedCorrelationIDs]_vars
    /\ [][Len(mw'.published) > Len(mw.published)
            => /\ mw.phase = "handling"
               /\ mw'.published[Len(mw'.published)].msg.correlation_id = mw.ctx]_vars

\* a message without a correlation id: its first attempt generated one and
\* failed at the publish, the retry found that id in the metadata, and the
\* message published holds the id of the context
CorrelationWitness ==
    /\ mw.orig.correlation_id = ""
    /\ mw.attempts = 2
    /\ mw.generated = 1
    /\ Len(mw.published) = 1
    /\ mw.published[1].msg.correlation_id = ShortUUID(1)
    /\ mw.ctx = ShortUUID(1)

\* C33: every message the splitter published, in the first delivery or in a
\* redelivery, is on the topic events.<name> of the consumed message and has
\* its message id, its payload and its event name.
RepublishedUnchanged ==
    \A i \in DOMAIN mw.published :
        /\ mw.handler = "events_splitter"
        /\ mw.published[i].topic = TopicOf(mw.orig.name)
        /\ mw.published[i].msg.uuid = mw.orig.uuid
        /\ mw.published[i].msg.payload = mw.orig.payload
        /\ mw.published[i].msg.name = mw.orig.name

\* the publish failed at every attempt of the first delivery, the message
\* was negative-acknowledged and delivered again, and the splitter
\* published it, with a correlation id the consumed message did not have
RepublishedWitness ==
    /\ mw.deliveries = 2
    /\ mw.nacks = 1
    /\ mw.phase = "acked"
    /\ Len(mw.published) = 1
    /\ mw.orig.correlation_id = ""
    /\ mw.published[1].msg.correlation_id # ""

\* C34 as stated: when msgsRouter.Run has returned an error, Service.Run
\* has returned or can take a step towards its return; it is never blocked
\* for good.
RouterErrorIsReturned ==
    (svc.router = "failed" /\ ~svc.returned) => ENABLED SvcNext

\* the events that are or were in a topic
Arrived == {e \in EventIds : msg[e].phase # "absent" \/ msg[e].acks > 0}

\* every event that is in a topic is acknowledged
AllApplied == \A e \in EventIds : msg[e].phase \in {"absent", "acked"}

\* the table when the events that arrived are applied once each, in causal
\* order
InCausalOrder == ApplyInOrder([b \in BookingIds |-> NoRow], Arrived, 1, 1)

RowOnlyFromBookingMade ==
    /\ [](\A b \in BookingIds :
            readModel[b].exists
              => \E m \in Creating \cap Succeeded : Event[m].booking_id = b)
    /\ [][\A e \in Updating :
            msg'[e] # msg[e] /\ msg[e].phase \in {"processing", "inTx"}
              => \A b \in BookingIds : readModel'[b].exists = readModel[b].exists]_vars

\* TicketBookingConfirmed runs beside the BookingMade of its booking: it
\* found no row and failed, and there is no row
RowOnlyFromBookingMadeWitness ==
    /\ msg["BM1"].phase = "processing"
    /\ msg["TC11"].phase = "processing"
    /\ msg["TC11"].attempts > 0
    /\ msg["TC11"].lasterr = ErrNoRows
    /\ ~readModel["B1"].exists

\* how often the record of transaction t was published to the broker
TimesPublished(t) == Cardinality({i \in DOMAIN events : events[i] = t})

\* the record of t is in the outbox table, marked forwarded or not
Marked(t) == \E i \in DOMAIN outbox : outbox[i].id = t /\ outbox[i].forwarded

\* the record of t was published and is neither marked nor among the
\* records the forwarder has published from its batch and is about to mark
PublishedUnmarked(t) ==
    /\ TimesPublished(t) > 0
    /\ ~Marked(t)
    /\ \A j \in 1..fwdPos : outbox[fwdBatch[j]].id # t

\* C37: while no crash and no failure has occurred, no record is published
\* twice and a record marked forwarded was published once; a record is
\* published again only when it was published and not marked, which only a
\* crash or a failure between its publish and its mark brings about; and
\* under OutboxLive every committed record is published.
ExactlyOnceWithoutFaults ==
    /\ [](faults = 0 => \A t \in TxIds :
                           /\ TimesPublished(t) <= 1
                           /\ Marked(t) => TimesPublished(t) = 1)
    /\ [](\A t \in TxIds : TimesPublished(t) > 1 => faults > 0)
    /\ [][\A t \in TxIds :
            /\ (TimesPublished(t)' > TimesPublished(t) /\ TimesPublished(t) > 0)
                  => PublishedUnmarked(t)
            /\ (PublishedUnmarked(t)' /\ ~PublishedUnmarked(t))
                  => faults' = faults + 1]_vars
    /\ \A t \in TxIds : (tx[t].status = "committed") ~> (TimesPublished(t) > 0)

\* both records were published once and marked, without a crash or failure
ExactlyOnceWitness ==
    /\ faults = 0
    /\ \A t \in TxIds : Marked(t) /\ TimesPublished(t) = 1

\* the forwarder crashed after the publish of a record and before its mark,
\* and the record was published a second time
PublishedTwiceWitness ==
    /\ faults > 0
    /\ \E t \in TxIds : TimesPublished(t) = 2 /\ Marked(t)

\* C38: a panic of the handler ends the delivery with one negative
\* acknowledgement and without a retry of the invocation that panicked,
\* so a delivery whose first invocation panics has one invocation; a
\* returned error is retried, a delivery has at most 1 + MaxRetries
\* invocations and one that ends with a returned error has exactly that many.
PanicIsNotRetried ==
    /\ [](/\ mw.lasterr = Panic => mw.phase = "nacked"
          /\ mw.phase = "retry" => mw.lasterr \notin {Panic, ErrNone}
          /\ mw.attempts <= 1 + MaxRetries
          /\ (mw.phase = "nacked" /\ mw.lasterr # Panic)
               => mw.attempts = 1 + MaxRetries)
    /\ [][(mw.phase = "handling" /\ mw'.lasterr = Panic)
           => /\ mw'.attempts = mw.attempts + 1
              /\ mw'.nacks = mw.nacks + 1
              /\ mw'.acks = mw.acks
              /\ mw'.delays = mw.delays]_vars

\* the first invocation of a delivery panicked: one invocation, one nack
PanicIsNotRetriedWitness ==
    /\ mw.lasterr = Panic
    /\ mw.attempts = 1
    /\ mw.deliveries = 1
    /\ mw.nacks = 1

\* a delivery that ended after 1 + MaxRetries invocations returned an error
ErrorIsRetriedWitness ==
    /\ mw.phase = "nacked"
    /\ mw.lasterr = ErrPublish
    /\ mw.attempts = 1 + MaxRetries

\* an invocation of the handler returns in this step (it does not panic)
AttemptReturns ==
    /\ mw.phase = "handling"
    /\ mw'.attempts = mw.attempts + 1
    /\ mw'.lasterr # Panic

\* C40: for every label the failed counter never exceeds the processed
\* counter; every invocation that returns, a retry included, adds one to
\* the processed counter of its label, and one to the failed counter if
\* and only if it returned an error; nothing else changes a counter.
MetricsCountAttempts ==
    /\ [](\A l \in Labels : mw.failed[l] <= mw.processed[l])
    /\ [][LET own == <<"events", mw.handler>>
          IN  IF AttemptReturns
              THEN /\ mw'.processed = [mw.processed EXCEPT ![own] = @ + 1]
                   /\ mw'.failed = IF mw'.lasterr # ErrNone
                                   THEN [mw.failed EXCEPT ![own] = @ + 1]
                                   ELSE mw.failed
              ELSE /\ mw'.processed = mw.processed
                   /\ mw'.failed = mw.failed]_vars

\* one delivery of one message, whose every invocation returned an error:
\* both counters of the label stand at 1 + MaxRetries
MetricsCountAttemptsWitness ==
    /\ mw.deliveries = 1
    /\ mw.phase = "nacked"
    /\ mw.processed[<<"events", mw.handler>>] = 1 + MaxRetries
    /\ mw.failed[<<"events", mw.handler>>] = 1 + MaxRetries

\* the handler of e is invoked or returns in this step
Invocation(e) ==
    /\ Running(msg[e])
    /\ \/ msg'[e].attempts # msg[e].attempts
       \/ msg'[e].phase # msg[e].phase

\* the invocation of the handler of e returns an error in this step
ReturnsError(e) ==
    /\ Invocation(e)
    /\ msg'[e].phase # "inTx"
    /\ msg'[e].lasterr # ErrNone

\* the rows of the read model this step changes
RowsChanged == {b \in BookingIds : readModel'[b] # readModel[b]}

\* the row b is the one the event e identifies
Identifies(e, b) ==
    IF e \in ByTicket
    THEN readModel[b].exists /\ Event[e].ticket_id \in DOMAIN readModel[b].payload.tickets
    ELSE b = Event[e].booking_id

\* the step leaves what b held of the tickets other than that of e
OtherTicketsKept(e, b) ==
    readModel[b].exists =>
        /\ readModel'[b].exists
        /\ readModel'[b].payload.booking_id = readModel[b].payload.booking_id
        /\ \A t \in DOMAIN readModel[b].payload.tickets \ {Event[e].ticket_id} :
              /\ t \in DOMAIN readModel'[b].payload.tickets
              /\ readModel'[b].payload.tickets[t] = readModel[b].payload.tickets[t]

\* C39: a step changes at most one row of the read model; a row changes
\* only in an invocation of a handler whose event identifies it, by its
\* booking id or by a ticket id the row holds, and the row keeps the other
\* tickets it held; an invocation that returns an error changes no row.
HandlerChangesOneRow ==
    [][/\ Cardinality(RowsChanged) <= 1
       /\ \A b \in RowsChanged :
             \E e \in EventIds :
                 /\ Invocation(e)
                 /\ Identifies(e, b)
                 /\ OtherTicketsKept(e, b)
       /\ \A e \in EventIds : ReturnsError(e) => RowsChanged = {}]_vars

\* the row of B1 holds the tickets T1 and T2, the row of B2 exists, and an
\* event of T1 was applied to B1 after T2 was confirmed
HandlerChangesOneRowWitness ==
    /\ readModel["B2"].exists
    /\ readModel["B1"].exists
    /\ DOMAIN readModel["B1"].payload.tickets = {"T1", "T2"}
    /\ readModel["B1"].payload.tickets["T2"].confirmed_at = Event["TC21"].published_at
    /\ msg["TP1"].phase = "acked"
    /\ readModel["B1"].payload.tickets["T1"].printed_at = Event["TP1"].published_at

====
